---- MODULE Spec2Model ----
(***************************************************************************)
(* The Mercurial push hook of contrib/tools/mercurial_push.py, run against *)
(* a Review Board service and a client repository.                         *)
(*                                                                         *)
(* One step of the model is either one whole invocation of                 *)
(* push_review_hook_base, or one thing the world around the hook does: a   *)
(* commit, an amend, a reordering rebase in the client repository, a       *)
(* review or a change of the approval flag on the service.                 *)
(***************************************************************************)
EXTENDS Integers, Sequences, FiniteSets, TLC

VARIABLES
    changesets,   \* every changeset of the client repository, oldest first
    known,        \* how many of them the central repository already holds
    revreqs,      \* the review requests of the service, by id
    hgrc,         \* the [reviewboardhook] section: allow_merge and publish
    outcome,      \* what the last step, if it was a hook run, returned
    hint,         \* the changeset named in the last run's 'hg push -r' line
    pushed,       \* how many incoming changesets the last run was given
    log,          \* what the last run logged, in order
    rc,           \* .reviewboardrc and the login: what push_review_hook needs
    api_error,    \* the APIError the service answers a call with, if any
    message,      \* a commit message given to find_ticket_refs, as tokens
    ticket_ids,   \* what find_ticket_refs returned for message
    linkified,    \* what linkify_ticket_refs returned for message
    old_description,  \* the description a review request has, as tokens
    new_description,  \* the description generated for it anew
    joined,       \* what join_descriptions returned for the two
    ticket_id_prefixes,  \* the ticket_id_prefixes setting of the hgrc
    ticket_prefixes      \* what get_ticket_prefixes returned for it

hookvars ==
    <<changesets, known, revreqs, hgrc, outcome, hint, pushed, log, rc,
      api_error>>

ticketvars == <<message, ticket_ids, linkified>>

descriptionvars == <<old_description, new_description, joined>>

prefixvars == <<ticket_id_prefixes, ticket_prefixes>>

textvars == <<ticketvars, descriptionvars, prefixvars>>

vars == <<hookvars, textvars>>

-----------------------------------------------------------------------------
(* Bounds of the model. *)

\* Changesets ever committed in the client repository.
MaxChangesets == 2
\* Times one changeset's content is amended.
MaxAmend == 1
\* Reviews written on the service, over all review requests.
MaxReviews == 2
\* Diff uploads on one review request.
MaxDiffs == 4

\* Review requests and uploads per request under the hook of rbtools/hooks.
MaxRevReqs == 3

MaxUploads == 2
\* Changesets ever committed where no changeset is a merge, amended or
\* rebased.
MaxPlainChangesets == 3

Users == {"testuser", "admin"}
Pushers == {"testuser"}
\* The tests commit as user1 and user2 in turn.
AuthorAt(date) == IF date % 2 = 1 THEN "user1" ELSE "user2"
AllowMergeValues == {"", "True"}
PublishValues == {"", "False"}

NoNode == <<>>
NoHash == <<"unset">>
NoDraft == [exists |-> FALSE]
\* The diffs of a request: how many were uploaded, and the latest of them.
NoDiffs == [count |-> 0]

\* .reviewboardrc names REPOSITORY and REVIEWBOARD_URL or not; getting the
\* API root and the repository succeeds or raises LoginError.
LoginValues == {"ok", "LoginError in get_root", "LoginError in get_repo"}
RcValues ==
    [REPOSITORY : BOOLEAN, REVIEWBOARD_URL : BOOLEAN, login : LoginValues]
RcComplete == [REPOSITORY |-> TRUE, REVIEWBOARD_URL |-> TRUE, login |-> "ok"]

-----------------------------------------------------------------------------
(* Sequence helpers. *)

Last(s) == s[Len(s)]

RECURSIVE AllTrue(_)
AllTrue(s) == IF s = <<>> THEN TRUE ELSE Head(s) /\ AllTrue(Tail(s))

RECURSIVE AnyTrue(_)
AnyTrue(s) == IF s = <<>> THEN FALSE ELSE Head(s) \/ AnyTrue(Tail(s))

\* list.index(False), 1-based; only used where a False is present.
RECURSIVE IndexOfFalse(_)
IndexOfFalse(s) == IF ~Head(s) THEN 1 ELSE 1 + IndexOfFalse(Tail(s))

-----------------------------------------------------------------------------
(* The version-control side. *)

\* The native identifier of the g-th changeset: Mercurial's node is a hash
\* of the changeset and of its ancestors, so it is the history up to it.
NodeOf(g) == SubSeq(changesets, 1, g)

\* What the hook reads of the g-th changeset through hg log.
Ctx(g) ==
    [node |-> NodeOf(g), author |-> changesets[g].author,
     date |-> changesets[g].date, desc |-> changesets[g].desc,
     merge |-> changesets[g].merge]

list_of_incoming(upto) == [i \in 1..(upto - known) |-> Ctx(known + i)]

is_merge(ctx) == ctx.merge

AuthorCode(a) == IF a = "user1" THEN 0 ELSE 1

date_author_hash(ctx) == 2 * ctx.date + AuthorCode(ctx.author)

\* hg showconfig: an unset or empty setting gives the default.
config(value, default) == IF value = "" THEN default ELSE value

\* Mutant: the words Mercurial itself reads as false are false here too.
configbool_lenient(value, default) ==
    LET text == config(value, IF default THEN "True" ELSE "False")
    IN IF text \in {"0", "False", "false", "no", "off"} THEN FALSE ELSE TRUE

configbool(value, default) ==
    LET text == config(value, IF default THEN "True" ELSE "False")
    IN IF text = "0" \/ text = "False" THEN FALSE ELSE TRUE

\* The diff of a span: header lines that name the nodes, and the content.
DiffOf(span) ==
    [header |-> [i \in 1..Len(span) |-> span[i].node],
     body |-> [i \in 1..Len(span) |-> <<span[i].date, span[i].desc>>]]

\* The content fingerprint leaves the header lines out.
diff_hash(diff) == diff.body

\* Mutant: the summary is taken from the newest changeset.
generate_summary_newest(span) == Last(span).desc

generate_summary(span) == span[1].desc

generate_description(span) ==
    [count |-> Len(span),
     text |-> [i \in 1..Len(span) |->
                 <<span[i].author, span[i].date, span[i].desc>>]]

-----------------------------------------------------------------------------
(* The review service. *)

\* The error codes the hook tells apart: the draft does not exist, the
\* submitter is no user of the service, the draft has no changes.
DRAFT_DOES_NOT_EXIST == 100

USER_NOT_REGISTERED == 208

DRAFT_HAS_NO_CHANGES == 211

ErrorCodes == {DRAFT_DOES_NOT_EXIST, USER_NOT_REGISTERED, DRAFT_HAS_NO_CHANGES}

\* The calls of the service that the hook guards with 'except APIError'.
GuardedCalls == {"get_draft", "draft.update", "review_requests.create"}

\* The service answers every call.
NoFault == [call |-> "none", error_code |-> 0]

\* The service answers one of the guarded calls with an APIError.
Faults == [call : GuardedCalls, error_code : ErrorCodes]

\* An APIError with this code, as what a run ends with.
APIError(error_code) ==
    CASE error_code = DRAFT_DOES_NOT_EXIST -> "APIError 100"
      [] error_code = USER_NOT_REGISTERED -> "APIError 208"
      [] error_code = DRAFT_HAS_NO_CHANGES -> "APIError 211"

\* Whether the service answers this call with an APIError.
Fails(call) == api_error.call = call

NewRevReq(commit_id, submitter) ==
    [commit_id |-> commit_id, submitter |-> submitter, status |-> "pending",
     approved |-> FALSE, public |-> FALSE, summary |-> 0,
     description |-> [count |-> 0, text |-> <<>>],
     real_commit_id |-> NoNode, diff_hash |-> NoHash,
     diffs |-> NoDiffs, reviews |-> {}, draft |-> NoDraft]

\* The latest diff upload of a request; 0 when there is none.
DiffDate(req) == req.diffs.count

RECURSIVE ReviewCount(_)
ReviewCount(rr) ==
    IF rr = <<>> THEN 0
    ELSE Cardinality(Head(rr).reviews) + ReviewCount(Tail(rr))

\* The first review request with this commit id, 0 when there is none.
find_review_request(rr, commit_id) ==
    LET hits == {r \in 1..Len(rr) : rr[r].commit_id = commit_id}
    IN IF hits = {} THEN 0 ELSE CHOOSE r \in hits : \A q \in hits : r <= q

\* The <<request, index>> pairs of the changesets that match a request.
RECURSIVE FindFrom(_, _, _)
FindFrom(rr, cs, i) ==
    IF i > Len(cs) THEN <<>>
    ELSE LET r == find_review_request(rr, date_author_hash(cs[i]))
         IN (IF r = 0 THEN <<>> ELSE << <<r, i>> >>) \o FindFrom(rr, cs, i + 1)

find_review_requests(rr, cs) == FindFrom(rr, cs, 1)

exact_match(req, ctx) == req.real_commit_id = ctx.node

\* Mutant: the reviewer is not compared with the submitter.
approved_by_others_self(req) ==
    IF ~req.approved THEN FALSE
    ELSE \E review \in req.reviews : review.ship_it

\* Mutant: the approval flag is not looked at.
approved_by_others_unflagged(req) ==
    \E review \in req.reviews :
       review.ship_it /\ review.user # req.submitter

approved_by_others(req) ==
    IF ~req.approved THEN FALSE
    ELSE \E review \in req.reviews :
            review.ship_it /\ review.user # req.submitter

\* What approved_by_others asks the service for, in order.
approved_by_others_queries(req) ==
    IF ~req.approved THEN <<>>
    ELSE <<"get_submitter", "get_reviews">>

\* Mutant: the status is not written.
close_request_noop(req) == req

close_request(req) == [req EXCEPT !.status = "submitted"]

\* diffs.upload_diff: one more diff, stamped with the time of the upload.
upload_diff(diffs, diff) ==
    [count |-> diffs.count + 1, timestamp |-> diffs.count + 1,
     diff |-> diff.body, tip |-> Last(diff.header)]

\* Mutant: the exact-match marker is written whether or not a diff is
\* uploaded.
update_draft_marks(req, span) ==
    LET diff == DiffOf(span)
        uploaded ==
            IF diff_hash(diff) = req.diff_hash THEN req
            ELSE [req EXCEPT
                    !.diffs = upload_diff(@, diff),
                    !.diff_hash = diff_hash(diff)]
    IN [uploaded EXCEPT
          !.real_commit_id = Last(span).node,
          !.draft = [exists |-> TRUE,
                     summary |-> generate_summary(span),
                     description |-> generate_description(span),
                     commit_id |-> date_author_hash(Last(span))]]

\* Mutant: the diff is uploaded whether or not its fingerprint is stored.
update_draft_uploads(req, span) ==
    LET diff == DiffOf(span)
    IN [req EXCEPT
          !.diffs = upload_diff(@, diff),
          !.diff_hash = diff_hash(diff),
          !.real_commit_id = Last(span).node,
          !.draft = [exists |-> TRUE,
                     summary |-> generate_summary(span),
                     description |-> generate_description(span),
                     commit_id |-> date_author_hash(Last(span))]]

\* update_draft: upload the diff unless its fingerprint is the stored one,
\* then write summary, description and commit id to the draft.
update_draft(req, span) ==
    LET diff == DiffOf(span)
        uploaded ==
            IF diff_hash(diff) = req.diff_hash THEN req
            ELSE [req EXCEPT
                    !.diffs = upload_diff(@, diff),
                    !.diff_hash = diff_hash(diff),
                    !.real_commit_id = Last(span).node]
    IN [uploaded EXCEPT
          !.draft = [exists |-> TRUE,
                     summary |-> generate_summary(span),
                     description |-> generate_description(span),
                     commit_id |-> date_author_hash(Last(span))]]

\* draft.update(public=True): the draft's fields become the request's.
PublishDraft(req) ==
    IF ~req.draft.exists THEN req
    ELSE [req EXCEPT !.summary = req.draft.summary,
                     !.description = req.draft.description,
                     !.commit_id = req.draft.commit_id,
                     !.public = TRUE,
                     !.draft = NoDraft]

\* Mutant: the draft is published whatever the publish setting says.
publish_maybe_always(req) == PublishDraft(req)

\* The draft is published unless the setting is off, get_draft fails or
\* draft.update fails.
publish_maybe(req) ==
    IF ~configbool(hgrc.publish, TRUE) THEN req
    ELSE IF Fails("get_draft") \/ Fails("draft.update") THEN req
    ELSE PublishDraft(req)

\* Mutant: every APIError of draft.update is swallowed.
publish_maybe_raised_swallows ==
    IF ~configbool(hgrc.publish, TRUE) THEN "none"
    ELSE IF Fails("get_draft")
    THEN IF api_error.error_code # DRAFT_DOES_NOT_EXIST
         THEN APIError(api_error.error_code)
         ELSE "raised"
    ELSE "none"

\* What publish_maybe raises: "none" when it returns. After the swallowed
\* error 100 of get_draft the name draft is not bound, and reading it
\* raises UnboundLocalError.
publish_maybe_raised ==
    IF ~configbool(hgrc.publish, TRUE) THEN "none"
    ELSE IF Fails("get_draft")
    THEN IF api_error.error_code # DRAFT_DOES_NOT_EXIST
         THEN APIError(api_error.error_code)
         ELSE "raised"
    ELSE IF Fails("draft.update")
            /\ api_error.error_code # DRAFT_HAS_NO_CHANGES
    THEN APIError(api_error.error_code)
    ELSE "none"

\* What publish_maybe logs.
publish_maybe_log ==
    IF configbool(hgrc.publish, TRUE) THEN <<>>
    ELSE <<"The review request has not been published yet.",
           "You must publish it manually.">>

\* Mutant: nothing is written onto the request.
update_and_publish_nothing(rr, r, span) == rr

update_and_publish(rr, r, span) ==
    [rr EXCEPT ![r] = publish_maybe(update_draft(rr[r], span))]

\* Mutant: merges are approved whatever allow_merge says.
is_approved_any_merge(cs) ==
    IF Len(cs) = 0 THEN TRUE
    ELSE \A i \in 1..Len(cs) : is_merge(cs[i])

is_approved(cs) ==
    IF Len(cs) = 0 THEN TRUE
    ELSE configbool(hgrc.allow_merge, FALSE)
         /\ \A i \in 1..Len(cs) : is_merge(cs[i])

\* Mutant: the key of the new request also reads the content.
create_by_content(rr, submitter, ctx) ==
    Append(rr, NewRevReq(date_author_hash(ctx) + 100 * (ctx.desc + 1),
                         submitter))

\* Mutant: the request is created twice.
create_twice(rr, submitter, ctx) ==
    Append(Append(rr, NewRevReq(date_author_hash(ctx), submitter)),
           NewRevReq(date_author_hash(ctx), submitter))

\* Mutant: the request is there although the call failed.
create_despite_error(rr, submitter, ctx) ==
    Append(rr, NewRevReq(date_author_hash(ctx), submitter))

create(rr, submitter, ctx) ==
    IF Fails("review_requests.create") THEN rr
    ELSE Append(rr, NewRevReq(date_author_hash(ctx), submitter))

\* What create raises: every APIError, "none" when it returns.
create_raised ==
    IF Fails("review_requests.create") THEN APIError(api_error.error_code)
    ELSE "none"

\* What is_approved and create log.
is_approved_log(cs) ==
    IF Len(cs) > 0 /\ is_approved(cs)
    THEN <<"New commits are merges, which are automatically approved">>
    ELSE <<>>

create_log ==
    IF ~Fails("review_requests.create")
    THEN <<"The review request must be completed before you can push again.",
           "URL: revreq.absolute_url">>
    ELSE IF api_error.error_code = USER_NOT_REGISTERED
    THEN <<"Could not create review request.",
           "Make sure you have created a user named %s.",
           "Go to %s to create a user.">>
    ELSE <<>>

-----------------------------------------------------------------------------
(* push_review_hook_base. *)

\* Mutant: prev_index is not moved on.
RECURSIVE LoopCalls_from_start(_, _, _, _, _)
LoopCalls_from_start(rr, cs, matches, j, prev_index) ==
    IF j > Len(matches) THEN <<>>
    ELSE LET r == matches[j][1]
             index == matches[j][2]
             revreq_changesets == SubSeq(cs, prev_index + 1, index)
         IN (IF ~exact_match(rr[r], cs[index])
             THEN << [revreq |-> r, changesets |-> revreq_changesets] >>
             ELSE <<>>)
            \o LoopCalls_from_start(rr, cs, matches, j + 1, prev_index)

\* The calls of update_and_publish in the loop over the matched requests:
\* one for each request whose match is not exact, with the changesets
\* since the previous match.
RECURSIVE LoopCalls(_, _, _, _, _)
LoopCalls(rr, cs, matches, j, prev_index) ==
    IF j > Len(matches) THEN <<>>
    ELSE LET r == matches[j][1]
             index == matches[j][2]
             revreq_changesets == SubSeq(cs, prev_index + 1, index)
         IN (IF ~exact_match(rr[r], cs[index])
             THEN << [revreq |-> r, changesets |-> revreq_changesets] >>
             ELSE <<>>)
            \o LoopCalls(rr, cs, matches, j + 1, index)

\* The calls are made in order; one that raises is the last.
RECURSIVE ApplyCalls(_, _, _)
ApplyCalls(rr, calls, k) ==
    IF k > Len(calls) THEN rr
    ELSE IF publish_maybe_raised # "none"
    THEN update_and_publish(rr, calls[k].revreq, calls[k].changesets)
    ELSE ApplyCalls(
           update_and_publish(rr, calls[k].revreq, calls[k].changesets),
           calls, k + 1)

\* The requests after the loop.
LoopUpdates(rr, cs, matches, j, prev_index) ==
    ApplyCalls(rr, LoopCalls(rr, cs, matches, j, prev_index), 1)

\* What the loop raises: what the first publish_maybe in it raises.
RECURSIVE LoopRaised(_, _, _, _)
LoopRaised(rr, cs, matches, j) ==
    IF j > Len(matches) THEN "none"
    ELSE IF ~exact_match(rr[matches[j][1]], cs[matches[j][2]])
            /\ publish_maybe_raised # "none"
    THEN publish_maybe_raised
    ELSE LoopRaised(rr, cs, matches, j + 1)

\* Mutant: only the last matched request is closed.
CloseAll_last(rr, matches, j) ==
    IF matches = <<>> THEN rr
    ELSE [rr EXCEPT ![Last(matches)[1]] = close_request(@)]

\* What the loop logs: publish_maybe's lines, once for each update.
RECURSIVE LoopLog(_, _, _, _)
LoopLog(rr, cs, matches, j) ==
    IF j > Len(matches) THEN <<>>
    ELSE IF ~exact_match(rr[matches[j][1]], cs[matches[j][2]])
    THEN IF publish_maybe_raised # "none" THEN <<>>
         ELSE publish_maybe_log \o LoopLog(rr, cs, matches, j + 1)
    ELSE LoopLog(rr, cs, matches, j + 1)

RECURSIVE CloseAll(_, _, _)
CloseAll(rr, matches, j) ==
    IF j > Len(matches) THEN rr
    ELSE CloseAll([rr EXCEPT ![matches[j][1]] = close_request(@)],
                  matches, j + 1)

\* The hint of the failing branch: changesets[approvals.index(False) - 1].
HintOf(cs, approvals) ==
    IF AnyTrue(approvals) /\ IndexOfFalse(approvals) - 2 > -1
    THEN cs[IndexOfFalse(approvals) - 1].node
    ELSE NoNode

\* What the last lines of the run log.
FinishLog(matches, approvals) ==
    IF AllTrue(approvals)
    THEN [j \in 1..Len(matches) |->
            "Closing review request: revreq.absolute_url"]
    ELSE IF AnyTrue(approvals) /\ IndexOfFalse(approvals) - 2 > -1
         THEN <<"If you want to push the already approved changes,",
                "you can (probably) do this by executing",
                "hg push -r changeset">>
         ELSE <<>>

\* Mutant: 'if any(approvals)' in place of 'if all(approvals)'.
Finish_any(rr, cs, matches, approvals) ==
    IF AnyTrue(approvals)
    THEN [revreqs |-> CloseAll(rr, matches, 1), outcome |-> "HOOK_SUCCESS",
          hint |-> NoNode, log |-> FinishLog(matches, approvals)]
    ELSE [revreqs |-> rr, outcome |-> "HOOK_FAILED", hint |-> NoNode,
          log |-> <<>>]

\* Mutant: 'if approvals[-1]' in place of 'if all(approvals)'.
Finish_last(rr, cs, matches, approvals) ==
    IF approvals # <<>> /\ Last(approvals)
    THEN [revreqs |-> CloseAll(rr, matches, 1), outcome |-> "HOOK_SUCCESS",
          hint |-> NoNode, log |-> FinishLog(matches, approvals)]
    ELSE [revreqs |-> rr, outcome |-> "HOOK_FAILED",
          hint |-> HintOf(cs, approvals),
          log |-> FinishLog(matches, approvals)]

Finish(rr, cs, matches, approvals) ==
    IF AllTrue(approvals)
    THEN [revreqs |-> CloseAll(rr, matches, 1), outcome |-> "HOOK_SUCCESS",
          hint |-> NoNode, log |-> FinishLog(matches, approvals)]
    ELSE [revreqs |-> rr, outcome |-> "HOOK_FAILED",
          hint |-> HintOf(cs, approvals),
          log |-> FinishLog(matches, approvals)]

\* The result of a run, its last lines after those logged before.
WithLog(res, lines) == [res EXCEPT !.log = lines \o @]

push_review_hook_base(rr0, cs, submitter) ==
    LET matches == find_review_requests(rr0, cs)
        n == Len(matches)
        rr1 == LoopUpdates(rr0, cs, matches, 1, 0)
        prev_index == IF n > 0 THEN matches[n][2] ELSE 0
        new_changesets == SubSeq(cs, prev_index + 1, Len(cs))
        approvals == [j \in 1..n |-> approved_by_others(rr1[matches[j][1]])]
        last_approved == IF n > 0 THEN approvals[n] ELSE TRUE
        start == <<"%d changesets received.",
                   "%d matching review request found.">>
                 \o LoopLog(rr0, cs, matches, 1)
    IN IF LoopRaised(rr0, cs, matches, 1) # "none"
       THEN [revreqs |-> rr1, outcome |-> LoopRaised(rr0, cs, matches, 1),
             hint |-> NoNode, log |-> start]
       ELSE IF last_approved /\ Len(new_changesets) > 0
          /\ ~is_approved(new_changesets)
       THEN LET rr2 == create(rr1, submitter, Last(new_changesets))
                rr3 == update_and_publish(rr2, Len(rr2), new_changesets)
                all_approvals == Append(approvals, FALSE)
                created == start
                    \o <<"Creating review request for new changesets.">>
                    \o create_log
            IN IF create_raised # "none"
               THEN [revreqs |-> rr2, outcome |-> create_raised,
                     hint |-> NoNode, log |-> created]
               ELSE IF publish_maybe_raised # "none"
               THEN [revreqs |-> rr3, outcome |-> publish_maybe_raised,
                     hint |-> NoNode, log |-> created]
               ELSE WithLog(Finish(rr3, cs, matches, all_approvals),
                            created \o publish_maybe_log)
       ELSE IF n = 0
            \* revreq is not bound: reading revreq.id raises
            THEN [revreqs |-> rr1, outcome |-> "raised", hint |-> NoNode,
                  log |-> start \o is_approved_log(new_changesets)]
            ELSE LET r == matches[n][1]
                     revreq_changesets ==
                         IF n > 1
                         THEN SubSeq(cs, matches[n - 1][2] + 1, Len(cs))
                         ELSE cs
                     rr2 == update_and_publish(rr1, r, revreq_changesets)
                     all_approvals ==
                         [approvals EXCEPT
                            ![n] = @ /\ is_approved(new_changesets)]
                     pending == start
                         \o (IF last_approved
                             THEN is_approved_log(new_changesets)
                             ELSE <<>>)
                         \o <<"Pending review request %d found.">>
                         \o (IF Len(new_changesets) > 0
                             THEN <<"Adding new changesets to this review request.">>
                             ELSE <<>>)
                 IN IF publish_maybe_raised # "none"
                    THEN [revreqs |-> rr2, outcome |-> publish_maybe_raised,
                          hint |-> NoNode, log |-> pending]
                    ELSE
                    WithLog(Finish(rr2, cs, matches, all_approvals),
                            pending
                            \o publish_maybe_log
                            \o (IF approvals[n]
                                THEN is_approved_log(new_changesets)
                                ELSE <<>>))

\* Mutant: REVIEWBOARD_URL is not looked for.
push_review_hook_no_url_check(rr, cs, submitter) ==
    IF ~rc.REPOSITORY
    THEN [revreqs |-> rr, outcome |-> "HOOK_FAILED", hint |-> NoNode,
          log |-> <<"You need to specify REPOSITORY">>]
    ELSE IF rc.login # "ok"
    THEN [revreqs |-> rr, outcome |-> "HOOK_FAILED", hint |-> NoNode,
          log |-> <<rc.login>>]
    ELSE push_review_hook_base(rr, cs, submitter)

\* push_review_hook: the configuration and the login are checked before
\* the run proper.
push_review_hook(rr, cs, submitter) ==
    IF ~rc.REPOSITORY
    THEN [revreqs |-> rr, outcome |-> "HOOK_FAILED", hint |-> NoNode,
          log |-> <<"You need to specify REPOSITORY">>]
    ELSE IF rc.login # "ok"
    THEN [revreqs |-> rr, outcome |-> "HOOK_FAILED", hint |-> NoNode,
          log |-> <<rc.login>>]
    ELSE IF ~rc.REVIEWBOARD_URL
    THEN [revreqs |-> rr, outcome |-> "HOOK_FAILED", hint |-> NoNode,
          log |-> <<"You need to specify REVIEWBOARD_URL">>]
    ELSE push_review_hook_base(rr, cs, submitter)

-----------------------------------------------------------------------------
(* The steps. *)

\* ticket_id_prefixes is not set in the hgrc.
NotConfigured == [configured |-> FALSE, fields |-> <<>>]

\* No text is being worked on.
NoText ==
    /\ message = <<>>
    /\ ticket_ids = <<>>
    /\ old_description = <<>>
    /\ new_description = <<>>
    /\ joined = <<>>
    /\ linkified = <<>>
    /\ ticket_id_prefixes = NotConfigured
    /\ ticket_prefixes = <<>>

Init ==
    /\ NoText
    /\ changesets = <<>>
    /\ known = 0
    /\ revreqs = <<>>
    /\ hgrc \in [allow_merge : AllowMergeValues, publish : PublishValues]
    /\ outcome = "none"
    /\ hint = NoNode
    /\ pushed = 0
    /\ log = <<>>
    /\ api_error = NoFault
    /\ rc = RcComplete

World == /\ outcome' = "none"
         /\ hint' = NoNode
         /\ pushed' = 0
         /\ log' = <<>>
         /\ UNCHANGED <<hgrc, rc, api_error, textvars>>

\* hg commit: a new changeset on top, made now.
Commit ==
    /\ Len(changesets) < MaxChangesets
    /\ \E m \in BOOLEAN :
         changesets' = Append(changesets,
                              [author |-> AuthorAt(Len(changesets) + 1),
                               date |-> Len(changesets) + 1,
                               desc |-> 0, merge |-> m])
    /\ UNCHANGED <<known, revreqs>>
    /\ World

\* hg commit --amend of the tip, when the central repository does not hold
\* it yet: content and message change, author and date stay.
Amend ==
    /\ Len(changesets) > known
    /\ Last(changesets).desc < MaxAmend
    /\ changesets' = [changesets EXCEPT ![Len(changesets)].desc = @ + 1]
    /\ UNCHANGED <<known, revreqs>>
    /\ World

\* hg rebase -s g -d g+1: an outgoing changeset is moved on top of the
\* younger one that followed it.
Rebase ==
    /\ \E g \in (known + 1)..(Len(changesets) - 1) :
         /\ changesets[g].date < changesets[g + 1].date
         /\ changesets' = [changesets EXCEPT ![g] = changesets[g + 1],
                                             ![g + 1] = changesets[g]]
    /\ UNCHANGED <<known, revreqs>>
    /\ World

\* Somebody reviews a request on the service. The service computes the
\* approval flag: a ship-it approves, a review without one opens an issue.
Review ==
    /\ \E r \in 1..Len(revreqs), u \in Users, s \in BOOLEAN :
         /\ ReviewCount(revreqs) < MaxReviews
         /\ LET review == [user |-> u, ship_it |-> s,
                           timestamp |-> DiffDate(revreqs[r])]
            IN /\ review \notin revreqs[r].reviews
               /\ revreqs' = [revreqs EXCEPT ![r].reviews = @ \cup {review},
                                             ![r].approved = s]
    /\ UNCHANGED <<changesets, known>>
    /\ World

\* hg push -r: the hook runs on the incoming changesets.
Push ==
    /\ \E upto \in (known + 1)..Len(changesets), submitter \in Pushers :
         \E res \in {push_review_hook(revreqs, list_of_incoming(upto),
                                       submitter)} :
            /\ \A r \in 1..Len(res.revreqs) :
                  res.revreqs[r].diffs.count <= MaxDiffs
            /\ revreqs' = res.revreqs
            /\ outcome' = res.outcome
            /\ hint' = res.hint
            /\ log' = res.log
            /\ pushed' = upto - known
            /\ known' = IF res.outcome = "HOOK_SUCCESS" THEN upto ELSE known
    /\ UNCHANGED <<changesets, hgrc, rc, api_error, textvars>>

Next == Commit \/ Amend \/ Rebase \/ Review \/ Push

Spec == Init /\ [][Next]_vars

-----------------------------------------------------------------------------
(* Longer pushes of plain changesets, under any .reviewboardrc and login. *)

InitPlain ==
    /\ NoText
    /\ changesets = <<>>
    /\ known = 0
    /\ revreqs = <<>>
    /\ hgrc = [allow_merge |-> "", publish |-> ""]
    /\ outcome = "none"
    /\ hint = NoNode
    /\ pushed = 0
    /\ log = <<>>
    /\ api_error = NoFault
    /\ rc \in RcValues

\* hg commit of a changeset that is no merge.
CommitPlain ==
    /\ Len(changesets) < MaxPlainChangesets
    /\ changesets' = Append(changesets,
                            [author |-> AuthorAt(Len(changesets) + 1),
                             date |-> Len(changesets) + 1,
                             desc |-> 0, merge |-> FALSE])
    /\ UNCHANGED <<known, revreqs>>
    /\ World

\* .reviewboardrc is edited, or the password file or the server changes.
Reconfigure ==
    /\ \E value \in RcValues : rc' = value /\ rc' # rc
    /\ outcome' = "none"
    /\ hint' = NoNode
    /\ pushed' = 0
    /\ log' = <<>>
    /\ UNCHANGED <<changesets, known, revreqs, hgrc, api_error, textvars>>

NextPlain == CommitPlain \/ Review \/ Push \/ Reconfigure

SpecPlain == InitPlain /\ [][NextPlain]_vars

-----------------------------------------------------------------------------
(* Runs that the service answers with an APIError. *)

InitFaults ==
    /\ NoText
    /\ changesets = <<>>
    /\ known = 0
    /\ revreqs = <<>>
    /\ hgrc \in [publish : PublishValues, allow_merge : {""}]
    /\ outcome = "none"
    /\ hint = NoNode
    /\ pushed = 0
    /\ log = <<>>
    /\ api_error = NoFault
    /\ rc = RcComplete

\* hg commit of a changeset that is no merge, while few are there.
CommitChange ==
    /\ Len(changesets) < MaxChangesets
    /\ changesets' = Append(changesets,
                            [author |-> AuthorAt(Len(changesets) + 1),
                             date |-> Len(changesets) + 1,
                             desc |-> 0, merge |-> FALSE])
    /\ UNCHANGED <<known, revreqs>>
    /\ World

\* The service starts to answer one of the guarded calls with an APIError.
ServiceFault ==
    /\ api_error = NoFault
    /\ api_error' \in Faults
    /\ outcome' = "none"
    /\ hint' = NoNode
    /\ pushed' = 0
    /\ log' = <<>>
    /\ UNCHANGED <<changesets, known, revreqs, hgrc, rc, textvars>>

NextFaults == CommitChange \/ Amend \/ Review \/ ServiceFault \/ Push

SpecFaults == InitFaults /\ [][NextFaults]_vars

-----------------------------------------------------------------------------
(* The hook of rbtools/hooks/mercurial.py, the one rbtools/hooks/          *)
(* mercurial_push.py runs: review requests are keyed by the node of the    *)
(* last changeset they hold.                                               *)

\* MercurialDiffer.diff(all_ctx[0] + "^1", all_ctx[-1], parent): the diff of
\* the span, and the parent diff, from the last changeset known before the
\* push to the span's first parent; before are the incoming changesets
\* that precede the span.
MercurialDiffer_diff(before, all_ctx) ==
    [diff |-> DiffOf(all_ctx).body,
     parent_diff |-> DiffOf(before).body,
     base_commit_id |-> NodeOf(known)]

\* The keyword arguments of an upload that has them all.
ParentDiffKeywords == {"parent_diff", "base_commit_id"}

\* Mutant: parent diff and base commit id are always passed.
mercurial_upload_diff_always(diffs, diff_info) ==
    [count |-> diffs.count + 1, diff |-> diff_info.diff,
     keywords |-> ParentDiffKeywords,
     parent_diff |-> diff_info.parent_diff,
     base_commit_id |-> diff_info.base_commit_id]

\* The upload of update_and_publish: parent diff and base commit id are
\* passed when the parent diff is not empty.
mercurial_upload_diff(diffs, diff_info) ==
    IF Len(diff_info.parent_diff) > 0
    THEN [count |-> diffs.count + 1, diff |-> diff_info.diff,
          keywords |-> ParentDiffKeywords,
          parent_diff |-> diff_info.parent_diff,
          base_commit_id |-> diff_info.base_commit_id]
    ELSE [count |-> diffs.count + 1, diff |-> diff_info.diff,
          keywords |-> {}, parent_diff |-> <<>>, base_commit_id |-> NoNode]

\* update_and_publish of rbtools/hooks/mercurial.py: the diff is uploaded,
\* then summary, description and commit id are written and published in
\* one update of the draft.
mercurial_update_and_publish(rr, r, before, all_ctx) ==
    [rr EXCEPT
       ![r].diffs = mercurial_upload_diff(@, MercurialDiffer_diff(before,
                                                                  all_ctx)),
       ![r].summary = generate_summary(all_ctx),
       ![r].description = generate_description(all_ctx),
       ![r].commit_id = Last(all_ctx).node,
       ![r].public = TRUE]

\* review_requests.create(repository=rbrepo, commit_id=tip_id)
mercurial_create(rr, submitter, tip_id) ==
    Append(rr, NewRevReq(tip_id, submitter))

\* The state of the loop over the incoming changesets when it starts.
LoopStart(rr) ==
    [returned |-> FALSE, revreqs |-> rr, last_approved |-> 0,
     approved_revreq |-> <<>>, log |-> <<"%d changesets received.">>]

\* Mutant: a changeset without review request ends the run.
RECURSIVE MercurialLoop_aborts(_, _, _)
MercurialLoop_aborts(cs, i, loop) ==
    IF i > Len(cs) THEN loop
    ELSE LET r == find_review_request(loop.revreqs, cs[i].node)
         IN IF r = 0
            THEN [loop EXCEPT !.returned = TRUE]
            ELSE IF approved_by_others(loop.revreqs[r])
            THEN MercurialLoop_aborts(cs, i + 1,
                   [loop EXCEPT
                      !.last_approved = i,
                      !.approved_revreq = Append(@, r),
                      !.log = @ \o <<"Approved review request found for %s",
                                     "URL: revreq.absolute_url">>])
            ELSE [loop EXCEPT
                    !.returned = TRUE,
                    !.revreqs =
                        IF i < Len(cs)
                        THEN mercurial_update_and_publish(@, r, <<>>, cs)
                        ELSE @,
                    !.log = @ \o <<"Pending review request found.">>
                        \o (IF loop.revreqs[r].approved
                            THEN <<"Review request has been approved by you, but must also be approved by someone else.">>
                            ELSE <<>>)
                        \o (IF i < Len(cs)
                            THEN <<"Adding new commits to this review request.">>
                            ELSE <<"No new commits since last time.">>)
                        \o <<"Cannot push until this review request is completed.",
                             "URL: revreq.absolute_url">>]

\* Mutant: the incoming changesets are written onto a pending request
\* also when it was found for the last of them.
RECURSIVE MercurialLoop_always_adds(_, _, _)
MercurialLoop_always_adds(cs, i, loop) ==
    IF i > Len(cs) THEN loop
    ELSE LET r == find_review_request(loop.revreqs, cs[i].node)
         IN IF r = 0
            THEN MercurialLoop_always_adds(cs, i + 1, loop)
            ELSE IF approved_by_others(loop.revreqs[r])
            THEN MercurialLoop_always_adds(cs, i + 1,
                   [loop EXCEPT
                      !.last_approved = i,
                      !.approved_revreq = Append(@, r),
                      !.log = @ \o <<"Approved review request found for %s",
                                     "URL: revreq.absolute_url">>])
            ELSE [loop EXCEPT
                    !.returned = TRUE,
                    !.revreqs = mercurial_update_and_publish(@, r, <<>>, cs),
                    !.log = @ \o <<"Pending review request found.",
                                   "Adding new commits to this review request.",
                                   "Cannot push until this review request is completed.",
                                   "URL: revreq.absolute_url">>]

\* The loop over the incoming changesets: a changeset without a review
\* request is passed over, an approved request moves last_approved on, a
\* pending one ends the run, after all incoming changesets were written
\* onto it unless it was found for the last of them.
RECURSIVE MercurialLoop(_, _, _)
MercurialLoop(cs, i, loop) ==
    IF i > Len(cs) THEN loop
    ELSE LET r == find_review_request(loop.revreqs, cs[i].node)
         IN IF r = 0
            THEN MercurialLoop(cs, i + 1, loop)
            ELSE IF approved_by_others(loop.revreqs[r])
            THEN MercurialLoop(cs, i + 1,
                   [loop EXCEPT
                      !.last_approved = i,
                      !.approved_revreq = Append(@, r),
                      !.log = @ \o <<"Approved review request found for %s",
                                     "URL: revreq.absolute_url">>])
            ELSE [loop EXCEPT
                    !.returned = TRUE,
                    !.revreqs =
                        IF i < Len(cs)
                        THEN mercurial_update_and_publish(@, r, <<>>, cs)
                        ELSE @,
                    !.log = @ \o <<"Pending review request found.">>
                        \o (IF loop.revreqs[r].approved
                            THEN <<"Review request has been approved by you, but must also be approved by someone else.">>
                            ELSE <<>>)
                        \o (IF i < Len(cs)
                            THEN <<"Adding new commits to this review request.">>
                            ELSE <<"No new commits since last time.">>)
                        \o <<"Cannot push until this review request is completed.",
                             "URL: revreq.absolute_url">>]

RECURSIVE CloseApproved(_, _, _)
CloseApproved(rr, approved_revreq, j) ==
    IF j > Len(approved_revreq) THEN rr
    ELSE CloseApproved([rr EXCEPT ![approved_revreq[j]] = close_request(@)],
                       approved_revreq, j + 1)

\* push_review_hook_base of rbtools/hooks/mercurial.py.
mercurial_push_review_hook_base(rr0, cs, submitter) ==
    LET loop == MercurialLoop(cs, 1, LoopStart(rr0))
        last_approved == loop.last_approved
        remaining_ctx == SubSeq(cs, last_approved + 1, Len(cs))
        approved ==
            \/ Len(remaining_ctx) = 0
            \/ /\ configbool(hgrc.allow_merge, FALSE)
               /\ \A k \in 1..Len(remaining_ctx) : is_merge(remaining_ctx[k])
    IN IF loop.returned
       THEN [revreqs |-> loop.revreqs, outcome |-> "HOOK_FAILED",
             hint |-> NoNode, log |-> loop.log]
       ELSE IF approved
       THEN [revreqs |-> CloseApproved(loop.revreqs, loop.approved_revreq, 1),
             outcome |-> "HOOK_SUCCESS", hint |-> NoNode,
             log |-> loop.log
                 \o (IF Len(remaining_ctx) > 0
                     THEN <<"New commits are merges, which are automatically approved">>
                     ELSE <<>>)
                 \o [j \in 1..Len(loop.approved_revreq) |->
                       "Closing review request: revreq.absolute_url"]]
       ELSE LET rr1 == mercurial_create(loop.revreqs, submitter,
                                        Last(remaining_ctx).node)
                rr2 == mercurial_update_and_publish(
                          rr1, Len(rr1), SubSeq(cs, 1, last_approved),
                          remaining_ctx)
            IN [revreqs |-> rr2, outcome |-> "HOOK_FAILED",
                hint |-> IF last_approved > 0
                         THEN cs[last_approved].node ELSE NoNode,
                log |-> loop.log
                    \o <<"Creating new review request for %s",
                         "The review request must be completed before you can push again.",
                         "URL: revreq.absolute_url">>
                    \o (IF last_approved > 0
                        THEN <<"If you want to push the already approved changes,",
                               "you can (probably) do this by executing",
                               "hg push -r changeset">>
                        ELSE <<>>)]

InitMercurial ==
    /\ NoText
    /\ changesets = <<>>
    /\ known = 0
    /\ revreqs = <<>>
    /\ hgrc \in [allow_merge : AllowMergeValues, publish : {""}]
    /\ outcome = "none"
    /\ hint = NoNode
    /\ pushed = 0
    /\ log = <<>>
    /\ api_error = NoFault
    /\ rc = RcComplete

\* hg commit, of a merge or not, while few changesets are there.
CommitMercurial ==
    /\ Len(changesets) < MaxPlainChangesets
    /\ \E m \in BOOLEAN :
         changesets' = Append(changesets,
                              [author |-> AuthorAt(Len(changesets) + 1),
                               date |-> Len(changesets) + 1,
                               desc |-> 0, merge |-> m])
    /\ UNCHANGED <<known, revreqs>>
    /\ World

\* hg push -r: the hook of rbtools/hooks/mercurial_push.py runs on the
\* incoming changesets.
PushMercurial ==
    /\ \E upto \in (known + 1)..Len(changesets), submitter \in Pushers :
         \E res \in {mercurial_push_review_hook_base(
                         revreqs, list_of_incoming(upto), submitter)} :
            /\ Len(res.revreqs) <= MaxRevReqs
            /\ \A r \in 1..Len(res.revreqs) :
                  res.revreqs[r].diffs.count <= MaxUploads
            /\ revreqs' = res.revreqs
            /\ outcome' = res.outcome
            /\ hint' = res.hint
            /\ log' = res.log
            /\ pushed' = upto - known
            /\ known' = IF res.outcome = "HOOK_SUCCESS" THEN upto ELSE known
    /\ UNCHANGED <<changesets, hgrc, rc, api_error, textvars>>

NextMercurial == CommitMercurial \/ Review \/ PushMercurial

SpecMercurial == InitMercurial /\ [][NextMercurial]_vars

-----------------------------------------------------------------------------
(* What the properties below speak about. *)

\* The changesets the hook run of this step is given.
IncomingOf(n) == list_of_incoming(known + n)

\* The requests the matcher pairs with incoming changesets, and where.
MatchedRequests(rr, cs) ==
    {m[1] : m \in {find_review_requests(rr, cs)[j] :
                     j \in 1..Len(find_review_requests(rr, cs))}}

LastMatchedIndex(rr, cs) ==
    LET m == find_review_requests(rr, cs)
    IN IF m = <<>> THEN 0 ELSE m[Len(m)][2]

\* A ship-it review written by somebody who is not the submitter.
ShipItByAnother(req) ==
    \E review \in req.reviews :
        review.ship_it /\ review.user # req.submitter

\* Such a review, given at or after the request's latest diff upload.
FreshShipItByAnother(req) ==
    \E review \in req.reviews :
        /\ review.ship_it
        /\ review.user # req.submitter
        /\ review.timestamp >= req.diffs.count

MergesAllowed == hgrc.allow_merge = "True"

\* The changesets after index i are none, or all merges while allow_merge
\* is enabled.
TrailingPasses(cs, i) ==
    \/ i = Len(cs)
    \/ MergesAllowed /\ \A k \in (i + 1)..Len(cs) : cs[k].merge

-----------------------------------------------------------------------------
(* C1: push_review_hook_base returns HOOK_SUCCESS only if every review     *)
(* request matched to an incoming changeset is approved by others (the     *)
(* service flags it approved and it has a ship-it by somebody other than   *)
(* its submitter) and the changesets after the last matched one are none,  *)
(* or all merges with allow_merge enabled; otherwise the push is denied.   *)
C1_AcceptOnlyIfApproved ==
    [][outcome' = "HOOK_SUCCESS" =>
         LET cs == IncomingOf(pushed')
         IN /\ \A r \in MatchedRequests(revreqs, cs) :
                  revreqs[r].approved /\ ShipItByAnother(revreqs[r])
            /\ TrailingPasses(cs, LastMatchedIndex(revreqs, cs))]_vars

\* Two incoming changesets, each with a request of its own, are accepted.
C1_Witness ==
    /\ outcome = "HOOK_SUCCESS"
    /\ pushed = 2
    /\ Cardinality({r \in 1..Len(revreqs) :
                      revreqs[r].status = "submitted"}) = 2

-----------------------------------------------------------------------------
(* C2: no unreviewed content is accepted. Whenever the hook returns        *)
(* HOOK_SUCCESS, every accepted changeset that is not an auto-approved     *)
(* trailing merge lies in a review request whose latest uploaded diff      *)
(* covers it and which has a ship-it by somebody other than the submitter  *)
(* given at or after that upload. Stated here for the configurations that  *)
(* auto-approve no merge, where no accepted changeset is exempt.           *)
AcceptedRange == (known - pushed + 1)..known

DiffCovers(req, g) ==
    /\ req.diffs.count > 0
    /\ \E k \in 1..Len(req.diffs.diff) :
         req.diffs.diff[k] = <<changesets[g].date, changesets[g].desc>>

C2_NoUnreviewedAccepted ==
    (outcome = "HOOK_SUCCESS" /\ ~MergesAllowed) =>
        \A g \in AcceptedRange :
            \E r \in 1..Len(revreqs) :
                DiffCovers(revreqs[r], g) /\ FreshShipItByAnother(revreqs[r])

-----------------------------------------------------------------------------
(* C3: approved_by_others is true only if the request has a ship-it review *)
(* by a user other than its submitter; so a run never returns HOOK_SUCCESS *)
(* while a matched request has ship-its by its submitter alone, however    *)
(* often the push is retried; and a run whose changesets all lie in        *)
(* matched requests that the service flags approved and that have a        *)
(* ship-it by another user given after the latest diff upload returns      *)
(* HOOK_SUCCESS.                                                           *)
C3_OnlyIfShipItByAnother ==
    \A r \in 1..Len(revreqs) :
        approved_by_others(revreqs[r]) => ShipItByAnother(revreqs[r])

C3_SelfApprovalNeverAccepts ==
    outcome' = "HOOK_SUCCESS" =>
        \A r \in MatchedRequests(revreqs, IncomingOf(pushed')) :
            ShipItByAnother(revreqs[r])

C3_AnotherShipItAccepts ==
    LET cs == IncomingOf(pushed')
    IN (/\ outcome' # "none"
        /\ LastMatchedIndex(revreqs, cs) = Len(cs)
        /\ \A r \in MatchedRequests(revreqs, cs) :
              revreqs[r].approved /\ FreshShipItByAnother(revreqs[r]))
       => outcome' = "HOOK_SUCCESS"

C3_NoSelfApproval ==
    /\ []C3_OnlyIfShipItByAnother
    /\ [][C3_SelfApprovalNeverAccepts /\ C3_AnotherShipItAccepts]_vars

\* A run has failed on a request that its submitter alone gave a ship-it.
C3_Witness ==
    /\ outcome = "HOOK_FAILED"
    /\ \E r \in 1..Len(revreqs) :
         /\ revreqs[r].approved
         /\ \E review \in revreqs[r].reviews :
              review.ship_it /\ review.user = revreqs[r].submitter
         /\ ~ShipItByAnother(revreqs[r])

-----------------------------------------------------------------------------
(* C4: staleness. approved_by_others is false for a request when every     *)
(* ship-it review by somebody other than the submitter predates the        *)
(* request's latest diff upload.                                           *)
C4_StaleShipItDoesNotCount ==
    \A r \in 1..Len(revreqs) :
        (\A review \in revreqs[r].reviews :
            (review.ship_it /\ review.user # revreqs[r].submitter)
                => review.timestamp < revreqs[r].diffs.count)
        => ~approved_by_others(revreqs[r])

-----------------------------------------------------------------------------
(* C5: idempotence. A run of push_review_hook_base that directly follows a *)
(* rejected run on the same incoming changesets, with no review and no     *)
(* change of the changesets in between, returns HOOK_FAILED again, creates *)
(* no review request and uploads no diff: the review requests are the same *)
(* in number and each has the diff history it had.                         *)
SameDiffHistories(before, after) ==
    /\ Len(after) = Len(before)
    /\ \A r \in 1..Len(before) : after[r].diffs = before[r].diffs

RetryOfRejectedPush ==
    /\ outcome = "HOOK_FAILED"
    /\ outcome' # "none"
    /\ pushed' = pushed

C5_RetryIsNoOp ==
    [][RetryOfRejectedPush =>
          outcome' = "HOOK_FAILED" /\ SameDiffHistories(revreqs, revreqs')]_vars

\* The same, for the configurations that publish every draft update.
Publishing == hgrc.publish = ""

C5_RetryIsNoOpWhenPublishing ==
    [][(Publishing /\ RetryOfRejectedPush) =>
          outcome' = "HOOK_FAILED" /\ SameDiffHistories(revreqs, revreqs')]_vars

\* A rejected run on two changesets has left a request that spans both.
C5_Witness ==
    /\ outcome = "HOOK_FAILED"
    /\ pushed = 2
    /\ Publishing
    /\ \E r \in 1..Len(revreqs) :
         revreqs[r].diffs.count > 0 /\ Len(revreqs[r].diffs.diff) = 2

-----------------------------------------------------------------------------
(* C6: end to end. A run on non-merge changesets none of which matches a   *)
(* review request creates exactly one request, whose diff and description  *)
(* span all of them, and returns HOOK_FAILED. A run on changesets whose    *)
(* only state on the service is such a request, with one review on it, a   *)
(* ship-it by another user given after the diff upload, returns            *)
(* HOOK_SUCCESS and leaves the request submitted.                          *)
Spans(req, cs) ==
    /\ req.diffs.count = 1
    /\ req.diffs.diff = DiffOf(cs).body
    /\ req.diffs.tip = Last(cs).node

C6_FirstPushCreatesOne ==
    LET cs == IncomingOf(pushed')
    IN (/\ outcome' # "none"
        /\ MatchedRequests(revreqs, cs) = {}
        /\ \A i \in 1..Len(cs) : ~cs[i].merge)
       => /\ outcome' = "HOOK_FAILED"
          /\ Len(revreqs') = Len(revreqs) + 1
          /\ SubSeq(revreqs', 1, Len(revreqs)) = revreqs
          /\ Spans(Last(revreqs'), cs)
          /\ Last(revreqs').status = "pending"

C6_PushAfterShipItAccepts ==
    LET cs == IncomingOf(pushed')
    IN (/\ outcome' # "none"
        /\ \E r \in 1..Len(revreqs) :
             /\ MatchedRequests(revreqs, cs) = {r}
             /\ LastMatchedIndex(revreqs, cs) = Len(cs)
             /\ Spans(revreqs[r], cs)
             /\ revreqs[r].status = "pending"
             /\ \E u \in Users \ {revreqs[r].submitter} :
                  revreqs[r].reviews =
                      {[user |-> u, ship_it |-> TRUE, timestamp |-> 1]})
       => /\ outcome' = "HOOK_SUCCESS"
          /\ \A r \in MatchedRequests(revreqs, cs) :
                revreqs'[r].status = "submitted"

C6_EndToEnd ==
    [][C6_FirstPushCreatesOne /\ C6_PushAfterShipItAccepts]_vars

\* Two changesets went through one request, from creation to acceptance.
C6_Witness ==
    /\ outcome = "HOOK_SUCCESS"
    /\ pushed = 2
    /\ Len(revreqs) = 1
    /\ revreqs[1].status = "submitted"
    /\ revreqs[1].diffs.count = 1
    /\ Len(revreqs[1].diffs.diff) = 2
    /\ Cardinality(revreqs[1].reviews) = 1

-----------------------------------------------------------------------------
(* C7: is_approved is true of a list of changesets exactly when the list   *)
(* is empty, or allow_merge is enabled and every changeset of the list is  *)
(* a merge. With allow_merge unset it is false of every list that is not   *)
(* empty, and a run with changesets after the last matched one does not    *)
(* return HOOK_SUCCESS, merges or not.                                     *)
\* The runs of consecutive changesets of the repository.
ChangesetRuns ==
    {[i \in 1..(b - a + 1) |-> Ctx(a + i - 1)] :
        a \in 1..(Len(changesets) + 1), b \in 0..Len(changesets)}

C7_IsApprovedExactly ==
    \A cs \in ChangesetRuns :
        /\ is_approved(cs) <=>
              \/ Len(cs) = 0
              \/ MergesAllowed /\ \A i \in 1..Len(cs) : cs[i].merge
        /\ (hgrc.allow_merge = "" /\ Len(cs) > 0) => ~is_approved(cs)

C7_TrailingMergesNeedReview ==
    LET cs == IncomingOf(pushed')
    IN (/\ outcome' # "none"
        /\ hgrc.allow_merge = ""
        /\ LastMatchedIndex(revreqs, cs) < Len(cs))
       => outcome' # "HOOK_SUCCESS"

C7_IsApproved ==
    /\ []C7_IsApprovedExactly
    /\ [][C7_TrailingMergesNeedReview]_vars

\* With allow_merge unset, a run on a merge after an approved request has
\* been rejected and has created a request for the merge.
C7_Witness ==
    /\ outcome = "HOOK_FAILED"
    /\ hgrc.allow_merge = ""
    /\ pushed = 2
    /\ changesets[known + 2].merge
    /\ Len(revreqs) = 2
    /\ approved_by_others(revreqs[1])

-----------------------------------------------------------------------------
(* C8: with allow_merge enabled, a run whose incoming changesets are all   *)
(* merges and match no review request returns HOOK_SUCCESS and creates no  *)
(* review request.                                                         *)
C8_UnmatchedMergesAccepted ==
    [][LET cs == IncomingOf(pushed')
       IN (/\ outcome' # "none"
           /\ MergesAllowed
           /\ MatchedRequests(revreqs, cs) = {}
           /\ \A i \in 1..Len(cs) : cs[i].merge)
          => outcome' = "HOOK_SUCCESS" /\ revreqs' = revreqs]_vars

-----------------------------------------------------------------------------
(* C9: matching is by the fingerprint of author and date. A request that  *)
(* a run creates is found by the fingerprint of the last changeset of the  *)
(* run; a changeset that an amend or a rebase gives another node, its      *)
(* author and date staying, matches the review request it matched before;  *)
(* and a run whose last incoming changeset matches a review request        *)
(* creates none.                                                           *)
SameChange(c, d) == c.author = d.author /\ c.date = d.date

C9_RewriteKeepsMatch ==
    (outcome' = "none" /\ Len(changesets') = Len(changesets)) =>
        \A g \in 1..Len(changesets), h \in 1..Len(changesets) :
            (/\ SameChange(changesets[g], changesets'[h])
             /\ NodeOf(g) # NodeOf(h)'
             /\ find_review_request(revreqs, date_author_hash(Ctx(g))) # 0)
            => find_review_request(revreqs', date_author_hash(Ctx(h)'))
                 = find_review_request(revreqs, date_author_hash(Ctx(g)))

C9_NoSecondRequest ==
    LET cs == IncomingOf(pushed')
    IN (outcome' # "none" /\ LastMatchedIndex(revreqs, cs) = Len(cs))
       => Len(revreqs') = Len(revreqs)

C9_CreatedIsFoundByFingerprint ==
    Len(revreqs') > Len(revreqs) =>
        find_review_request(revreqs',
                            date_author_hash(Last(IncomingOf(pushed'))))
            = Len(revreqs')

C9_FingerprintMatching ==
    [][/\ C9_CreatedIsFoundByFingerprint
       /\ C9_RewriteKeepsMatch
       /\ C9_NoSecondRequest]_vars

\* An amended changeset was pushed again: its one request has a second diff.
C9_Witness ==
    /\ outcome = "HOOK_FAILED"
    /\ Len(changesets) = 1
    /\ changesets[1].desc = 1
    /\ Len(revreqs) = 1
    /\ revreqs[1].diffs.count = 2
    /\ revreqs[1].real_commit_id = NodeOf(1)

-----------------------------------------------------------------------------
(* C10: the exact-match marker of a review request names a changeset only  *)
(* if a diff was uploaded to the request for a span that ends at that      *)
(* changeset; and a run that uploads no diff to a request leaves its       *)
(* marker as it was, so that a fingerprint-only match stays one.           *)
C10_MarkerNamesUploadedTip ==
    \A r \in 1..Len(revreqs) :
        revreqs[r].real_commit_id # NoNode =>
            /\ revreqs[r].diffs.count > 0
            /\ revreqs[r].diffs.tip = revreqs[r].real_commit_id

C10_NoUploadNoMarker ==
    \A r \in 1..Len(revreqs) :
        (Len(revreqs') >= r /\ revreqs'[r].diffs = revreqs[r].diffs)
            => revreqs'[r].real_commit_id = revreqs[r].real_commit_id

C10_MarkerOnlyAfterUpload ==
    /\ []C10_MarkerNamesUploadedTip
    /\ [][C10_NoUploadNoMarker]_vars

\* The changesets of the last run.
LastRun ==
    IF outcome = "HOOK_SUCCESS" THEN AcceptedRange
    ELSE (known + 1)..(known + pushed)

\* A run matched a request by fingerprint only, after a rebase that left
\* the content as it was, and skipped the upload: the marker still names
\* the node the changeset had.
C10_Witness ==
    /\ outcome \in {"HOOK_SUCCESS", "HOOK_FAILED"}
    /\ Publishing
    /\ \E r \in 1..Len(revreqs), g \in LastRun :
         /\ revreqs[r].commit_id = date_author_hash(Ctx(g))
         /\ revreqs[r].diffs.diff = DiffOf(<<Ctx(g)>>).body
         /\ revreqs[r].real_commit_id # NoNode
         /\ revreqs[r].real_commit_id # NodeOf(g)

-----------------------------------------------------------------------------
(* C11: re-approval after a content change. A run that has uploaded a new  *)
(* diff to a matched review request, or finds one whose ship-its by users  *)
(* other than the submitter all predate its latest diff upload, returns    *)
(* HOOK_FAILED, however often it is retried; and a run whose changesets    *)
(* all lie in matched requests that are approved with a ship-it by another *)
(* user given after the latest upload returns HOOK_SUCCESS. Stated for the *)
(* runs that have no changeset after the last matched one.                 *)
C11_StaleRequestRejects ==
    LET cs == IncomingOf(pushed')
    IN (/\ outcome' # "none"
        /\ LastMatchedIndex(revreqs, cs) = Len(cs)
        /\ \E r \in MatchedRequests(revreqs, cs) :
              ~FreshShipItByAnother(revreqs'[r]))
       => outcome' = "HOOK_FAILED"

C11_FreshShipItAccepts ==
    LET cs == IncomingOf(pushed')
    IN (/\ outcome' # "none"
        /\ LastMatchedIndex(revreqs, cs) = Len(cs)
        /\ \A r \in MatchedRequests(revreqs, cs) :
              /\ revreqs[r].approved
              /\ revreqs'[r].diffs = revreqs[r].diffs
              /\ FreshShipItByAnother(revreqs[r]))
       => outcome' = "HOOK_SUCCESS"

C11_ReapprovalAfterAmend ==
    [][C11_StaleRequestRejects /\ C11_FreshShipItAccepts]_vars

-----------------------------------------------------------------------------
(* C12: updating a review request with a span whose diff fingerprint is    *)
(* the one stored on the request uploads no diff: the diff history, the    *)
(* time of the latest upload, the stored fingerprint and the exact-match   *)
(* marker stay. So a run on changesets that a rebase gave other nodes but  *)
(* the same content, all in requests approved with a ship-it by another    *)
(* user, uploads nothing, returns HOOK_SUCCESS and closes the requests.    *)
C12_SameFingerprintSkipsUpload ==
    \A r \in 1..Len(revreqs), span \in ChangesetRuns :
        (Len(span) > 0 /\ diff_hash(DiffOf(span)) = revreqs[r].diff_hash)
        => LET updated == update_draft(revreqs[r], span)
           IN /\ updated.diffs = revreqs[r].diffs
              /\ updated.diff_hash = revreqs[r].diff_hash
              /\ updated.real_commit_id = revreqs[r].real_commit_id

\* Each incoming changeset has a request of its own that stores the
\* fingerprint of its content.
EachInOwnRequest(rr, cs) ==
    /\ Len(find_review_requests(rr, cs)) = Len(cs)
    /\ \A i \in 1..Len(cs) :
         rr[find_review_requests(rr, cs)[i][1]].diff_hash
             = diff_hash(DiffOf(<<cs[i]>>))

C12_ApprovalSurvivesRebase ==
    LET cs == IncomingOf(pushed')
    IN (/\ outcome' # "none"
        /\ EachInOwnRequest(revreqs, cs)
        /\ \A r \in MatchedRequests(revreqs, cs) :
              revreqs[r].approved /\ FreshShipItByAnother(revreqs[r]))
       => /\ outcome' = "HOOK_SUCCESS"
          /\ \A r \in MatchedRequests(revreqs, cs) :
                /\ revreqs'[r].diffs = revreqs[r].diffs
                /\ revreqs'[r].status = "submitted"

C12_UnchangedContentKeepsApproval ==
    /\ []C12_SameFingerprintSkipsUpload
    /\ [][C12_ApprovalSurvivesRebase]_vars

\* Two approved changesets were rebased and accepted: both requests are
\* closed with the one diff they had, their markers naming the old nodes.
C12_Witness ==
    /\ outcome = "HOOK_SUCCESS"
    /\ pushed = 2
    /\ Len(revreqs) = 2
    /\ \A r \in 1..2 :
         /\ revreqs[r].status = "submitted"
         /\ revreqs[r].diffs.count = 1
         /\ \A g \in AcceptedRange : revreqs[r].real_commit_id # NodeOf(g)

-----------------------------------------------------------------------------
(* C13: a run that returns HOOK_SUCCESS leaves every matched review        *)
(* request submitted; a run that returns HOOK_FAILED sets no review        *)
(* request's status to submitted.                                          *)
C13_AcceptCloses ==
    outcome' = "HOOK_SUCCESS" =>
        \A r \in MatchedRequests(revreqs, IncomingOf(pushed')) :
            revreqs'[r].status = "submitted"

C13_RejectClosesNothing ==
    outcome' = "HOOK_FAILED" =>
        \A r \in 1..Len(revreqs') :
            revreqs'[r].status = "submitted" =>
                r <= Len(revreqs) /\ revreqs[r].status = "submitted"

C13_ClosedExactlyOnAccept ==
    [][C13_AcceptCloses /\ C13_RejectClosesNothing]_vars

\* A run was rejected with one matched request approved and one not: both
\* are still pending.
C13_Witness ==
    /\ outcome = "HOOK_FAILED"
    /\ pushed = 2
    /\ Len(revreqs) = 2
    /\ approved_by_others(revreqs[1])
    /\ \A r \in 1..2 : revreqs[r].status = "pending"

-----------------------------------------------------------------------------
(* C14: a run that returns HOOK_FAILED while the first matched review      *)
(* requests are approved by others names, in its 'hg push -r' line, the    *)
(* last changeset of the approved prefix: the incoming changeset matched   *)
(* by the last of these approved requests. Stated for the runs in which    *)
(* no request after an unapproved one is approved.                         *)
\* How many of the first matched requests are approved by others.
RECURSIVE LeadingApproved(_, _, _)
LeadingApproved(rr, matches, j) ==
    IF j > Len(matches) \/ ~approved_by_others(rr[matches[j][1]]) THEN j - 1
    ELSE LeadingApproved(rr, matches, j + 1)

C14_HintNamesLastApproved ==
    [][LET cs == IncomingOf(pushed')
           matches == find_review_requests(revreqs, cs)
           k == LeadingApproved(revreqs, matches, 1)
       IN (/\ outcome' = "HOOK_FAILED"
           /\ rc = RcComplete
           /\ k >= 1
           /\ \A j \in (k + 1)..Len(matches) :
                 ~approved_by_others(revreqs[matches[j][1]]))
          => hint' = cs[matches[k][2]].node]_vars

-----------------------------------------------------------------------------
(* C15: every run that returns HOOK_FAILED logs, in this order, why the    *)
(* push was stopped, the URL of the review request concerned and, when     *)
(* the first matched review request is approved by others, the command to  *)
(* push only the approved changesets.                                      *)
Reasons ==
    {"Creating review request for new changesets.",
     "The review request must be completed before you can push again.",
     "Pending review request %d found."}

SomePrefixApproved(rr, cs) ==
    LeadingApproved(rr, find_review_requests(rr, cs), 1) >= 1

C15_RejectExplains ==
    [][(outcome' = "HOOK_FAILED" /\ rc = RcComplete) =>
          \E i \in 1..Len(log'), j \in 1..Len(log') :
              /\ i < j
              /\ log'[i] \in Reasons
              /\ log'[j] = "URL: revreq.absolute_url"
              /\ SomePrefixApproved(revreqs, IncomingOf(pushed')) =>
                    \E k \in (j + 1)..Len(log') :
                        log'[k] = "hg push -r changeset"]_vars

-----------------------------------------------------------------------------
(* The hook with and without publishing, merges refused, where the         *)
(* submitter may also publish a draft by hand.                             *)
InitDraft ==
    /\ NoText
    /\ changesets = <<>>
    /\ known = 0
    /\ revreqs = <<>>
    /\ hgrc \in [publish : PublishValues, allow_merge : {""}]
    /\ outcome = "none"
    /\ hint = NoNode
    /\ pushed = 0
    /\ log = <<>>
    /\ api_error = NoFault
    /\ rc = RcComplete

\* The submitter publishes the draft of a request by hand.
ManualPublish ==
    /\ \E r \in 1..Len(revreqs) :
         /\ revreqs[r].draft.exists
         /\ revreqs' = [revreqs EXCEPT ![r] = PublishDraft(@)]
    /\ UNCHANGED <<changesets, known>>
    /\ World

NextDraft == Commit \/ Amend \/ Review \/ ManualPublish \/ Push

SpecDraft == InitDraft /\ [][NextDraft]_vars

-----------------------------------------------------------------------------
(* C16: publishing is gated by the publish setting. With publish = False   *)
(* no run publishes anything: a request that a run creates or updates      *)
(* keeps the generated summary and description in its draft, and its       *)
(* published fields are what they were. With the setting unset (true by    *)
(* default) no run leaves a draft behind.                                  *)
PublishOff == hgrc.publish = "False"

\* The fields of a request that only publishing changes.
Published(req) ==
    [public |-> req.public, summary |-> req.summary,
     description |-> req.description, commit_id |-> req.commit_id]

C16_NoRunPublishes ==
    (outcome' # "none" /\ PublishOff) =>
        /\ \A r \in 1..Len(revreqs) :
              /\ Published(revreqs'[r]) = Published(revreqs[r])
              /\ (\/ revreqs'[r].draft # revreqs[r].draft
                  \/ revreqs'[r].diffs # revreqs[r].diffs) =>
                    /\ revreqs'[r].draft.exists
                    /\ revreqs'[r].draft.description.count > 0
        /\ \A r \in (Len(revreqs) + 1)..Len(revreqs') :
              /\ ~revreqs'[r].public
              /\ revreqs'[r].draft.exists
              /\ revreqs'[r].draft.description.count > 0

C16_EveryUpdatePublished ==
    (outcome' # "none" /\ hgrc.publish = "") =>
        \A r \in 1..Len(revreqs') :
            /\ ~revreqs'[r].draft.exists
            /\ (r > Len(revreqs) \/ revreqs'[r].diffs # revreqs[r].diffs)
                  => revreqs'[r].public

C16_PublishIsGated ==
    [][C16_NoRunPublishes /\ C16_EveryUpdatePublished]_vars

\* With publish = False, a later push has uploaded a second diff to the
\* request of the first push: the request is still unpublished and the
\* generated description is in its draft.
C16_Witness ==
    /\ PublishOff
    /\ outcome = "HOOK_FAILED"
    /\ Len(revreqs) = 1
    /\ revreqs[1].diffs.count = 2
    /\ ~revreqs[1].public
    /\ revreqs[1].description.count = 0
    /\ revreqs[1].draft.exists
    /\ revreqs[1].draft.description.count > 0

-----------------------------------------------------------------------------
(* C17: a run whose configuration lacks REPOSITORY or REVIEWBOARD_URL, or  *)
(* whose login raises LoginError (in get_root or in get_repo), returns     *)
(* HOOK_FAILED, tells the operator why, and creates, updates and closes no *)
(* review request.                                                         *)
Misconfigured == ~rc.REPOSITORY \/ ~rc.REVIEWBOARD_URL \/ rc.login # "ok"

-----------------------------------------------------------------------------
(* join_descriptions of rbtools.hooks.mercurial, on descriptions that are  *)
(* sequences of pieces: generated text, text the user wrote on the         *)
(* service, and the delimiter between the two.                             *)

\* Pieces in a description.
MaxDescription == 3

DELIMITER == "DELIMITER"

Pieces == {"generated", "usertext", DELIMITER}

\* str.find: where the first delimiter is, 0 when there is none.
RECURSIVE FindDelimiter(_, _)
FindDelimiter(description, i) ==
    IF i > Len(description) THEN 0
    ELSE IF description[i] = DELIMITER THEN i
    ELSE FindDelimiter(description, i + 1)

\* Mutant: what the user wrote is dropped.
join_descriptions_fresh(old_desc, new_desc) == new_desc \o <<DELIMITER>>

join_descriptions(old_desc, new_desc) ==
    LET at == FindDelimiter(old_desc, 1)
    IN  IF at = 0
        THEN new_desc \o <<DELIMITER>>
        ELSE new_desc \o SubSeq(old_desc, at, Len(old_desc))

HookIdle ==
    /\ changesets = <<>>
    /\ known = 0
    /\ revreqs = <<>>
    /\ hgrc = [allow_merge |-> "", publish |-> ""]
    /\ outcome = "none"
    /\ hint = NoNode
    /\ pushed = 0
    /\ log = <<>>
    /\ api_error = NoFault
    /\ rc = RcComplete

InitDescriptions == HookIdle /\ NoText

\* The user edits the description of the request on the service.
EditDescription ==
    /\ Len(old_description) < MaxDescription
    /\ \E piece \in Pieces : old_description' = Append(old_description, piece)
    /\ joined' = <<>>
    /\ UNCHANGED <<hookvars, ticketvars, prefixvars, new_description>>

\* The hook generates a description from the changesets.
GenerateDescription ==
    /\ Len(new_description) < MaxDescription - 1
    /\ \E piece \in Pieces : new_description' = Append(new_description, piece)
    /\ joined' = <<>>
    /\ UNCHANGED <<hookvars, ticketvars, prefixvars, old_description>>

JoinDescriptions ==
    /\ joined' = join_descriptions(old_description, new_description)
    /\ UNCHANGED <<hookvars, ticketvars, prefixvars, old_description,
                   new_description>>

NextDescriptions == EditDescription \/ GenerateDescription \/ JoinDescriptions

SpecDescriptions == InitDescriptions /\ [][NextDescriptions]_vars

(* C18: join_descriptions(old, new) is new followed by the part of old     *)
(* that starts at the delimiter, piece for piece; when old has no          *)
(* delimiter it is new followed by the delimiter and nothing else.         *)
HasDelimiter(description) ==
    \E i \in 1..Len(description) : description[i] = DELIMITER

\* What follows the generated text of a joined description.
KeptPart == SubSeq(joined, Len(new_description) + 1, Len(joined))

C18_DescriptionPreservation ==
    joined # <<>> =>
        /\ Len(joined) > Len(new_description)
        /\ \A i \in 1..Len(new_description) : joined[i] = new_description[i]
        /\ KeptPart[1] = DELIMITER
        /\ ~HasDelimiter(old_description) => Len(KeptPart) = 1
        /\ HasDelimiter(old_description) =>
              \E at \in 1..Len(old_description) :
                  /\ old_description[at] = DELIMITER
                  /\ \A i \in 1..(at - 1) : old_description[i] # DELIMITER
                  /\ Len(KeptPart) = Len(old_description) - at + 1
                  /\ \A i \in at..Len(old_description) :
                        KeptPart[i - at + 1] = old_description[i]

\* test_join_descriptions: the user's text of the old description follows
\* the new generated text.
C18_Witness ==
    /\ old_description = <<"generated", DELIMITER, "usertext">>
    /\ new_description = <<"generated", "generated">>
    /\ joined = <<"generated", "generated", DELIMITER, "usertext">>

-----------------------------------------------------------------------------
(* find_ticket_refs of rbtools.hooks.common, on commit messages that are   *)
(* sequences of tokens: what TICKET_TRIGGER matches, what TICKET_JOIN      *)
(* matches, a ticket id (its digits, as the string the regular expression  *)
(* captures), and any other text.                                          *)

\* Tokens in a commit message.
MaxTokens == 5

\* The optional '(?:TICKET_JOIN ticket_id)?' groups after the first id.
TicketChain == 10

\* The ticket ids written in the messages: "1", "2", "3" and "10".
DigitStrings == {<<1>>, <<2>>, <<3>>, <<1, 0>>}

TICKET_TRIGGER ==
    [kind |-> "TICKET_TRIGGER", digits |-> <<>>, hash |-> FALSE, prefix |-> ""]

TICKET_JOIN ==
    [kind |-> "TICKET_JOIN", digits |-> <<>>, hash |-> FALSE, prefix |-> ""]

OtherText == [kind |-> "other", digits |-> <<>>, hash |-> FALSE, prefix |-> ""]

\* What ticket_id can match: an optional '#', a prefix, digits. Here the
\* ids written without a prefix.
TicketIdTokens ==
    {[kind |-> "ticket_id", digits |-> d, hash |-> h, prefix |-> ""] :
        d \in DigitStrings, h \in BOOLEAN}

\* str.lower of the prefixes that are written.
lower(prefix) == IF prefix = "APP-" THEN "app-" ELSE prefix

\* ticket_id matches at the token: its prefix is one of prefixes, letters'
\* case ignored under re.IGNORECASE.
IsTicketId(token, prefixes, ignorecase) ==
    /\ token.kind = "ticket_id"
    /\ \E p \in 1..Len(prefixes) :
          \/ token.prefix = prefixes[p]
          \/ ignorecase /\ lower(token.prefix) = lower(prefixes[p])

\* prefixes=None: prefixes = [''].
DefaultPrefixes == <<"">>

Tokens == {TICKET_TRIGGER, TICKET_JOIN, OtherText} \cup TicketIdTokens

\* The groups the optional part of the pattern captures from position j on.
RECURSIVE MatchChain(_, _, _, _)
MatchChain(msg, j, left, prefixes) ==
    IF /\ left > 0
       /\ j + 1 <= Len(msg)
       /\ msg[j] = TICKET_JOIN
       /\ IsTicketId(msg[j + 1], prefixes, TRUE)
    THEN <<msg[j + 1].digits>>
            \o MatchChain(msg, j + 2, left - 1, prefixes)
    ELSE <<>>

\* re.findall: the non-empty groups of every match, left to right, matches
\* not overlapping.
RECURSIVE findall(_, _)
findall(msg, i) ==
    IF i + 1 > Len(msg) THEN <<>>
    ELSE IF /\ msg[i] = TICKET_TRIGGER
            /\ IsTicketId(msg[i + 1], DefaultPrefixes, TRUE)
    THEN LET groups == <<msg[i + 1].digits>>
                          \o MatchChain(msg, i + 2, TicketChain,
                                        DefaultPrefixes)
         IN  groups \o findall(msg, i + 2 * Len(groups))
    ELSE findall(msg, i + 1)

\* The order of Python strings: character by character, a proper prefix
\* first.
RECURSIVE StrLess(_, _)
StrLess(a, b) ==
    IF b = <<>> THEN FALSE
    ELSE IF a = <<>> THEN TRUE
    ELSE IF Head(a) # Head(b) THEN Head(a) < Head(b)
    ELSE StrLess(Tail(a), Tail(b))

\* sorted: a stable sort of a list of strings.
RECURSIVE Insert(_, _)
Insert(str, list) ==
    IF list = <<>> THEN <<str>>
    ELSE IF StrLess(str, Head(list)) THEN <<str>> \o list
    ELSE <<Head(list)>> \o Insert(str, Tail(list))

RECURSIVE sorted(_)
sorted(list) ==
    IF list = <<>> THEN <<>>
    ELSE Insert(list[Len(list)], sorted(SubSeq(list, 1, Len(list) - 1)))

find_ticket_refs(msg) == sorted(findall(msg, 1))

InitTickets == HookIdle /\ NoText

\* The committer writes the commit message.
WriteMessage ==
    /\ Len(message) < MaxTokens
    /\ \E token \in Tokens : message' = Append(message, token)
    /\ ticket_ids' = <<>>
    /\ UNCHANGED <<hookvars, linkified, descriptionvars, prefixvars>>

FindTicketRefs ==
    /\ ticket_ids' = find_ticket_refs(message)
    /\ UNCHANGED <<hookvars, message, linkified, descriptionvars, prefixvars>>

NextTickets == WriteMessage \/ FindTicketRefs

SpecTickets == InitTickets /\ [][NextTickets]_vars

\* The number a string of digits writes.
RECURSIVE int(_)
int(str) ==
    IF str = <<>> THEN 0
    ELSE 10 * int(SubSeq(str, 1, Len(str) - 1)) + str[Len(str)]

(* C19: the ticket ids find_ticket_refs returns are in ascending numeric   *)
(* order: no id is followed by a numerically smaller one.                  *)
C19_AscendingNumericOrder ==
    \A i, j \in 1..Len(ticket_ids) :
        i < j => int(ticket_ids[i]) <= int(ticket_ids[j])

(* C20: find_ticket_refs returns every ticket id at most once, also when   *)
(* the message refers to it after several triggers.                        *)
C20_EachIdOnce ==
    \A i, j \in 1..Len(ticket_ids) :
        i # j => int(ticket_ids[i]) # int(ticket_ids[j])

-----------------------------------------------------------------------------
(* linkify_ticket_refs of rbtools.hooks.common, on tokenised texts whose   *)
(* ticket ids may be written with a prefix, in either case of letters.     *)

\* Tokens in a text that is linkified.
MaxLinkTokens == 4

\* The base_url given to linkify_ticket_refs.
base_url == "a/"

\* The prefixes argument: the default, and ['app-', ''].
PrefixLists == {DefaultPrefixes, <<"app-", "">>}

LinkIdTokens ==
    {[kind |-> "ticket_id", digits |-> d, hash |-> h, prefix |-> p] :
        d \in {<<1>>, <<1, 0>>}, h \in BOOLEAN, p \in {"", "app-", "APP-"}}

LinkTokens == {TICKET_TRIGGER, TICKET_JOIN, OtherText} \cup LinkIdTokens

NoLabel == [kind |-> "none", digits |-> <<>>, hash |-> FALSE, prefix |-> ""]

\* A piece of the linkified text: text that stays text, then the link
\* '[label](url)' if there is one.
Plain(token) == [text |-> token, label |-> NoLabel, url |-> <<>>]

\* Mutant: the link text is the id without its '#'.
re_sub_bare(token, prefixes) ==
    [text |-> [kind |-> "other", digits |-> <<>>, hash |-> FALSE,
               prefix |-> ""],
     label |-> [token EXCEPT !.hash = FALSE],
     url |-> <<base_url, token.prefix, token.digits>>]

\* re.sub(ticket_id, r'[\1](%s\2)' % escape_url, substr) at one id of the
\* match, without re.IGNORECASE: group 1 is the id as written and group 2
\* the id without '#' when the prefix is one of prefixes as written;
\* failing that, with '' among the prefixes, the pattern matches at the
\* digits alone and the '#' and the prefix stay text.
re_sub(token, prefixes) ==
    IF IsTicketId(token, prefixes, FALSE)
    THEN [text |-> [kind |-> "other", digits |-> <<>>, hash |-> FALSE,
                    prefix |-> ""],
          label |-> token,
          url |-> <<base_url, token.prefix, token.digits>>]
    ELSE IF \E p \in 1..Len(prefixes) : prefixes[p] = ""
    THEN [text |-> [kind |-> "other", digits |-> <<>>, hash |-> token.hash,
                    prefix |-> token.prefix],
          label |-> [kind |-> "ticket_id", digits |-> token.digits,
                     hash |-> FALSE, prefix |-> ""],
          url |-> <<base_url, "", token.digits>>]
    ELSE Plain(token)

replace_num_with_link(substr, prefixes) ==
    [k \in 1..Len(substr) |->
        IF substr[k].kind = "ticket_id" THEN re_sub(substr[k], prefixes)
        ELSE Plain(substr[k])]

\* The outer re.sub, with re.IGNORECASE: every match of the pattern is
\* handed to replace_num_with_link, the text between the matches stays.
RECURSIVE sub(_, _, _)
sub(msg, i, prefixes) ==
    IF i > Len(msg) THEN <<>>
    ELSE IF /\ i + 1 <= Len(msg)
            /\ msg[i] = TICKET_TRIGGER
            /\ IsTicketId(msg[i + 1], prefixes, TRUE)
    THEN LET n == 1 + Len(MatchChain(msg, i + 2, TicketChain, prefixes))
         IN  replace_num_with_link(SubSeq(msg, i, i + 2 * n - 1), prefixes)
                \o sub(msg, i + 2 * n, prefixes)
    ELSE <<Plain(msg[i])>> \o sub(msg, i + 1, prefixes)

linkify_ticket_refs(msg, prefixes) == sub(msg, 1, prefixes)

InitLinkify ==
    /\ HookIdle
    /\ message = <<>>
    /\ ticket_ids = <<>>
    /\ linkified = <<>>
    /\ old_description = <<>>
    /\ new_description = <<>>
    /\ joined = <<>>
    /\ ticket_id_prefixes = NotConfigured
    /\ ticket_prefixes \in PrefixLists

\* The committer writes the text.
WriteText ==
    /\ Len(message) < MaxLinkTokens
    /\ \E token \in LinkTokens : message' = Append(message, token)
    /\ linkified' = <<>>
    /\ UNCHANGED <<hookvars, ticket_ids, descriptionvars, prefixvars>>

LinkifyTicketRefs ==
    /\ linkified' = linkify_ticket_refs(message, ticket_prefixes)
    /\ UNCHANGED <<hookvars, message, ticket_ids, descriptionvars, prefixvars>>

NextLinkify == WriteText \/ LinkifyTicketRefs

SpecLinkify == InitLinkify /\ [][NextLinkify]_vars

(* C21: linkify_ticket_refs changes the text only by putting links in the  *)
(* place of the ticket ids that follow a trigger: the link texts, put back *)
(* where the links are, give the input text; exactly the ids after a       *)
(* trigger (joined to it by TICKET_JOINs) have become links, each          *)
(* '[id as written]' to base_url and the id without '#'; a text with no    *)
(* trigger before an id comes back unchanged.                              *)

\* The id at position k follows a trigger: the trigger is at t, and ids
\* and joins alternate from there to k.
FollowsTrigger(msg, k, prefixes) ==
    /\ IsTicketId(msg[k], prefixes, TRUE)
    /\ \E t \in 1..(k - 1) :
          /\ msg[t] = TICKET_TRIGGER
          /\ (k - t) % 2 = 1
          /\ (k - t) \div 2 <= TicketChain
          /\ \A m \in (t + 1)..k :
                IF (m - t) % 2 = 1 THEN IsTicketId(msg[m], prefixes, TRUE)
                ELSE msg[m] = TICKET_JOIN

\* The text of a piece with its link replaced by the link's text.
Unlinked(piece) ==
    IF piece.label = NoLabel THEN piece.text
    ELSE [kind |-> "ticket_id", digits |-> piece.label.digits,
          hash |-> piece.text.hash \/ piece.label.hash,
          prefix |-> IF piece.text.prefix # "" THEN piece.text.prefix
                     ELSE piece.label.prefix]

C21_RoundTrip ==
    linkified # <<>> =>
        /\ Len(linkified) = Len(message)
        /\ \A k \in 1..Len(message) : Unlinked(linkified[k]) = message[k]

C21_NoTriggerNoChange ==
    linkified # <<>> =>
        \A k \in 1..Len(message) :
            ~FollowsTrigger(message, k, ticket_prefixes) =>
                linkified[k] = Plain(message[k])

C21_IdsBecomeLinks ==
    linkified # <<>> =>
        \A k \in 1..Len(message) :
            FollowsTrigger(message, k, ticket_prefixes) =>
                /\ linkified[k].label = message[k]
                /\ linkified[k].url =
                      <<base_url, message[k].prefix, message[k].digits>>

\* C21: linkify_ticket_refs only puts links for the ids after a trigger,
\* each with the id as written as its text.
C21_LinkifyOnlyAddsLinks ==
    C21_RoundTrip /\ C21_NoTriggerNoChange /\ C21_IdsBecomeLinks

-----------------------------------------------------------------------------
(* get_ticket_prefixes of contrib/tools/mercurial_push.py. The setting is  *)
(* the fields between its commas; a field is a prefix with or without      *)
(* white space before and after it.                                        *)

\* Comma-separated fields in the ticket_id_prefixes setting.
MaxPrefixes == 2

PrefixFields ==
    [lead : BOOLEAN, body : {"", "app-", "bug-"}, trail : BOOLEAN]

None == [configured |-> FALSE, fields |-> <<>>]

\* str.strip of the whole value: no white space before the first field's
\* body nor after the last one's.
strip(fields) ==
    [k \in 1..Len(fields) |->
        [lead |-> fields[k].lead /\ k > 1,
         body |-> fields[k].body,
         trail |-> fields[k].trail /\ k < Len(fields)]]

\* The value is white space at most.
Blank(fields) ==
    \/ fields = <<>>
    \/ Len(fields) = 1 /\ fields[1].body = ""

\* hg_config(section, name, default=None): what hg showconfig prints,
\* stripped; the default when the setting is missing or empty.
hg_config(setting) ==
    IF ~setting.configured \/ Blank(setting.fields) THEN None
    ELSE [configured |-> TRUE, fields |-> strip(setting.fields)]

\* Mutant: the empty prefix is not appended.
get_ticket_prefixes_as_configured(setting) ==
    LET prefixes == hg_config(setting)
    IN  IF prefixes = None THEN <<"">>
        ELSE [k \in 1..Len(prefixes.fields) |-> prefixes.fields[k].body]

get_ticket_prefixes(setting) ==
    LET prefixes == hg_config(setting)
    IN  IF prefixes = None THEN <<"">>
        ELSE [k \in 1..Len(prefixes.fields) |-> prefixes.fields[k].body]
                \o <<"">>

InitPrefixes == HookIdle /\ NoText

\* The administrator writes the setting, field by field, or removes it.
Configure ==
    /\ \/ /\ Len(ticket_id_prefixes.fields) < MaxPrefixes
          /\ \E field \in PrefixFields :
                ticket_id_prefixes' =
                    [configured |-> TRUE,
                     fields |-> Append(ticket_id_prefixes.fields, field)]
       \/ /\ ticket_id_prefixes # NotConfigured
          /\ ticket_id_prefixes' = NotConfigured
    /\ ticket_prefixes' = <<>>
    /\ UNCHANGED <<hookvars, ticketvars, descriptionvars>>

GetTicketPrefixes ==
    /\ ticket_prefixes' = get_ticket_prefixes(ticket_id_prefixes)
    /\ UNCHANGED <<hookvars, ticketvars, descriptionvars, ticket_id_prefixes>>

NextPrefixes == Configure \/ GetTicketPrefixes

SpecPrefixes == InitPrefixes /\ [][NextPrefixes]_vars

(* C22: the list get_ticket_prefixes returns ends with the empty prefix:   *)
(* it is [''] when ticket_id_prefixes is not configured (or has no value), *)
(* and else the configured prefixes, stripped, followed by ''; so an id    *)
(* written without a prefix is a ticket id under every configuration.      *)
HasValue(setting) ==
    /\ setting.configured
    /\ \E k \in 1..Len(setting.fields) :
          setting.fields[k].body # "" \/ Len(setting.fields) > 1

C22_EmptyPrefixAlways ==
    ticket_prefixes # <<>> =>
        /\ ticket_prefixes[Len(ticket_prefixes)] = ""
        /\ ~HasValue(ticket_id_prefixes) => ticket_prefixes = <<"">>
        /\ HasValue(ticket_id_prefixes) =>
              /\ Len(ticket_prefixes) = Len(ticket_id_prefixes.fields) + 1
              /\ \A k \in 1..Len(ticket_id_prefixes.fields) :
                    ticket_prefixes[k] = ticket_id_prefixes.fields[k].body
        /\ \A id \in TicketIdTokens :
              IsTicketId(id, ticket_prefixes, FALSE)

\* 'ticket_id_prefixes = app- , bug-' gives ['app-', 'bug-', ''].
C22_Witness ==
    /\ ticket_id_prefixes =
          [configured |-> TRUE,
           fields |-> <<[lead |-> FALSE, body |-> "app-", trail |-> TRUE],
                        [lead |-> TRUE, body |-> "bug-", trail |-> FALSE]>>]
    /\ ticket_prefixes = <<"app-", "bug-", "">>

-----------------------------------------------------------------------------
(* C23: a run ACCEPTs exactly when the changesets after last_approved are  *)
(* approved for push (there are none, or all are merges and allow_merge is *)
(* set), last_approved being the last incoming changeset that a request    *)
(* marked approved by approved_by_others covers; every other run REJECTs.  *)

\* The index of the last changeset of cs matched by a request that
\* approved_by_others marks approved; 0 when there is none.
LastApprovedIndex(rr, cs) ==
    LET matches == find_review_requests(rr, cs)
        approved == {matches[j][2] : j \in
                        {k \in 1..Len(matches) :
                            approved_by_others(rr[matches[k][1]])}}
    IN  IF approved = {} THEN 0
        ELSE CHOOSE i \in approved : \A k \in approved : k <= i

AllMatchedApproved(rr, cs) ==
    /\ \A r \in MatchedRequests(rr, cs) : approved_by_others(rr[r])
    /\ TrailingPasses(cs, LastMatchedIndex(rr, cs))

-----------------------------------------------------------------------------
(* C24: when the last matched request is not approved, the run creates no  *)
(* request, writes the changesets after the last approved changeset onto   *)
(* the draft of that request and REJECTs; pushed again, the changesets     *)
(* match the same request.                                                 *)

\* The description the hook last wrote for the request: the draft's, or
\* the published one when the draft has been published.
WrittenDescription(req) ==
    IF req.draft.exists THEN req.draft.description ELSE req.description

\* The last match of cs: <<request, index>>.
LastMatch(rr, cs) == Last(find_review_requests(rr, cs))

LastMatchedPending(rr, cs) ==
    /\ find_review_requests(rr, cs) # <<>>
    /\ ~approved_by_others(rr[LastMatch(rr, cs)[1]])

\* The index of the changeset matched before the last matched one; 0 when
\* only one is matched.
PreviousMatchedIndex(rr, cs) ==
    LET matches == find_review_requests(rr, cs)
    IN  IF Len(matches) > 1 THEN matches[Len(matches) - 1][2] ELSE 0

\* The run has written the changesets of cs after index 'from' onto the
\* last matched request, created none and REJECTed.
AddsToPending(cs, from) ==
    LET r == LastMatch(revreqs, cs)[1]
    IN  /\ outcome' = "HOOK_FAILED"
        /\ Len(revreqs') = Len(revreqs)
        /\ WrittenDescription(revreqs'[r])
              = generate_description(SubSeq(cs, from + 1, Len(cs)))
        /\ LastMatch(revreqs', cs)[1] = r

C24_NotApprovedOntoPending ==
    [][(outcome' # "none" /\ rc = RcComplete
          /\ LastMatchedPending(revreqs, IncomingOf(pushed'))) =>
             AddsToPending(IncomingOf(pushed'),
                           LastApprovedIndex(revreqs, IncomingOf(pushed')))]_vars

(* C24, as the code has it: the changesets written onto the pending        *)
(* request are those after the changeset matched before it (all incoming   *)
(* changesets when it is the only match), whether or not the requests      *)
(* matched before it are approved.                                         *)
C24_SpanOntoPending ==
    [][(outcome' # "none" /\ rc = RcComplete
          /\ LastMatchedPending(revreqs, IncomingOf(pushed'))) =>
             AddsToPending(IncomingOf(pushed'),
                           PreviousMatchedIndex(revreqs, IncomingOf(pushed')))]_vars

\* A second changeset was pushed on top of a pending request: the one
\* request now describes both, after a second diff upload.
C24_Witness ==
    /\ outcome = "HOOK_FAILED"
    /\ rc = RcComplete
    /\ pushed = 2
    /\ Len(revreqs) = 1
    /\ revreqs[1].diffs.count = 2
    /\ ~approved_by_others(revreqs[1])
    /\ WrittenDescription(revreqs[1]) = generate_description(IncomingOf(2))

-----------------------------------------------------------------------------
(* C25: when every matched request is approved (or none is matched) and    *)
(* changesets remain after the last matched one that are not approved for  *)
(* push, the run creates exactly one request, keyed by the fingerprint of  *)
(* the last new changeset; its draft describes, and its diff holds, all    *)
(* changesets after the last matched one, merges too; the run REJECTs.     *)
C25_OneRequestForNewChangesets ==
    [][(/\ outcome' # "none"
        /\ rc = RcComplete
        /\ \A r \in MatchedRequests(revreqs, IncomingOf(pushed')) :
              approved_by_others(revreqs[r])
        /\ ~TrailingPasses(IncomingOf(pushed'),
                           LastMatchedIndex(revreqs, IncomingOf(pushed')))) =>
          LET cs == IncomingOf(pushed')
              new_changesets ==
                  SubSeq(cs, LastMatchedIndex(revreqs, cs) + 1, Len(cs))
              created == revreqs'[Len(revreqs')]
          IN  /\ outcome' = "HOOK_FAILED"
              /\ Len(revreqs') = Len(revreqs) + 1
              /\ created.commit_id = date_author_hash(Last(cs))
              /\ WrittenDescription(created)
                    = generate_description(new_changesets)
              /\ created.diffs.count = 1
              /\ created.diffs.diff = DiffOf(new_changesets).body
              /\ created.status = "pending"]_vars

\* test_push_review_hook_base_merge: a changeset and a merge were pushed,
\* one request keyed by the merge describes both.
C25_Witness ==
    /\ outcome = "HOOK_FAILED"
    /\ pushed = 2
    /\ known = 0
    /\ changesets[2].merge
    /\ ~changesets[1].merge
    /\ Len(revreqs) = 1
    /\ revreqs[1].commit_id = date_author_hash(changesets[2])
    /\ WrittenDescription(revreqs[1]) = generate_description(IncomingOf(2))
    /\ revreqs[1].diffs.count = 1

-----------------------------------------------------------------------------
(* C26: with publishing enabled, a run whose get_draft calls fail with     *)
(* error 100 (the draft does not exist) goes on as if nothing had          *)
(* happened: it raises nothing, publishes nothing and returns its verdict. *)
DraftDoesNotExist ==
    api_error = [call |-> "get_draft", error_code |-> DRAFT_DOES_NOT_EXIST]

\* C26: such a run returns a verdict and publishes nothing.
C26_DraftDoesNotExistIsBenign ==
    [][(outcome' # "none" /\ DraftDoesNotExist
        /\ configbool(hgrc.publish, TRUE)) =>
          /\ outcome' \in {"HOOK_SUCCESS", "HOOK_FAILED"}
          /\ \A r \in 1..Len(revreqs) :
                Published(revreqs'[r]) = Published(revreqs[r])]_vars

-----------------------------------------------------------------------------
(* C27: with publishing enabled, error 211 (the draft has no changes) of   *)
(* the publishing update is swallowed and the run returns its verdict; any *)
(* other error of the publishing update, and any error but 100 of          *)
(* get_draft, ends the run as it is, and the push is rejected.             *)
SwallowedByPublish ==
    api_error = [call |-> "draft.update", error_code |-> DRAFT_HAS_NO_CHANGES]

PropagatedByPublish ==
    \/ Fails("draft.update") /\ api_error.error_code # DRAFT_HAS_NO_CHANGES
    \/ Fails("get_draft") /\ api_error.error_code # DRAFT_DOES_NOT_EXIST

\* C27: error 211 of the update gives a verdict, the other errors end the
\* run unchanged.
C27_PublishErrors ==
    [][(outcome' # "none" /\ configbool(hgrc.publish, TRUE)) =>
          /\ SwallowedByPublish =>
                outcome' \in {"HOOK_SUCCESS", "HOOK_FAILED"}
          /\ PropagatedByPublish =>
                /\ outcome' = APIError(api_error.error_code)
                /\ known' = known]_vars

\* A run ended with error 208 of draft.update: the request it created
\* keeps its draft, and nothing was accepted.
C27_Witness ==
    /\ configbool(hgrc.publish, TRUE)
    /\ api_error = [call |-> "draft.update",
                    error_code |-> USER_NOT_REGISTERED]
    /\ outcome = APIError(USER_NOT_REGISTERED)
    /\ pushed = 1
    /\ known = 0
    /\ Len(revreqs) = 1
    /\ revreqs[1].draft.exists

-----------------------------------------------------------------------------
(* C28: when review_requests.create fails, the run ends with that error    *)
(* whatever its code, after the three lines of the registration hint when  *)
(* the code is 208; nothing is accepted, no request is created, and no     *)
(* draft is updated.                                                       *)
CreateCalled(rr, cs) ==
    /\ \/ find_review_requests(rr, cs) = <<>>
       \/ approved_by_others(rr[LastMatch(rr, cs)[1]])
    /\ ~TrailingPasses(cs, LastMatchedIndex(rr, cs))

RegistrationHint ==
    <<"Could not create review request.",
      "Make sure you have created a user named %s.",
      "Go to %s to create a user.">>

EndsWith(lines, tail) ==
    /\ Len(lines) >= Len(tail)
    /\ SubSeq(lines, Len(lines) - Len(tail) + 1, Len(lines)) = tail

CreateErrorEndsRun ==
    /\ outcome' = APIError(api_error.error_code)
    /\ known' = known
    /\ Len(revreqs') = Len(revreqs)
    /\ EndsWith(log', RegistrationHint)
          <=> api_error.error_code = USER_NOT_REGISTERED

\* C28 as stated: no draft at all is updated by the run.
C28_CreateErrorUpdatesNothing ==
    [][(outcome' # "none" /\ Fails("review_requests.create")
        /\ CreateCalled(revreqs, IncomingOf(pushed'))) =>
          /\ CreateErrorEndsRun
          /\ revreqs' = revreqs]_vars

\* The matched requests whose match is not exact: the loop before the
\* call of create has updated them.
UpdatedByLoop(rr, cs) ==
    LET matches == find_review_requests(rr, cs)
    IN {r \in 1..Len(rr) :
          \E j \in 1..Len(matches) :
             /\ matches[j][1] = r
             /\ ~exact_match(rr[r], cs[matches[j][2]])}

\* C28, as the code has it: the run ends with the error as above, and the
\* requests it has changed are those the loop updated before create was
\* called.
C28_CreateErrorEndsRun ==
    [][(outcome' # "none" /\ Fails("review_requests.create")
        /\ CreateCalled(revreqs, IncomingOf(pushed'))) =>
          /\ CreateErrorEndsRun
          /\ \A r \in 1..Len(revreqs) :
                revreqs'[r] # revreqs[r] =>
                   r \in UpdatedByLoop(revreqs, IncomingOf(pushed'))]_vars

\* An approved request whose changeset was amended, pushed with a new
\* changeset on top: the run has uploaded the amended diff to the request,
\* then create failed with error 208.
C28_Witness ==
    /\ Fails("review_requests.create")
    /\ outcome = APIError(USER_NOT_REGISTERED)
    /\ EndsWith(log, RegistrationHint)
    /\ pushed = 2
    /\ known = 0
    /\ Len(revreqs) = 1
    /\ revreqs[1].approved
    /\ revreqs[1].reviews # {}
    /\ \A review \in revreqs[1].reviews : review.timestamp = 1
    /\ revreqs[1].diffs.count = 2

-----------------------------------------------------------------------------
(* C29: approved_by_others is false for every request whose approval flag  *)
(* is false, whatever reviews the request has, and then it asks the        *)
(* service neither for the submitter nor for the reviews.                  *)
C29_UnflaggedIsNotApproved ==
    \A r \in 1..Len(revreqs) :
       ~revreqs[r].approved =>
          /\ ~approved_by_others(revreqs[r])
          /\ approved_by_others_queries(revreqs[r]) = <<>>

\* A request with a ship-it by somebody else and a later review that
\* cleared its flag was pushed again, and the push was rejected.
C29_Witness ==
    /\ outcome = "HOOK_FAILED"
    /\ pushed = 1
    /\ Len(revreqs) = 1
    /\ ~revreqs[1].approved
    /\ ShipItByAnother(revreqs[1])
    /\ revreqs[1].commit_id = date_author_hash(changesets[known + 1])

-----------------------------------------------------------------------------
(* C30: in the loop over the matched requests update_and_publish is called *)
(* for exactly the requests whose match is not exact, each with the        *)
(* changesets after the previous matched one up to its own; these spans    *)
(* and the changesets after the last matched one are disjoint, in push     *)
(* order, and cover every incoming changeset once.                         *)
SpanOf(cs, matches, j) ==
    SubSeq(cs, (IF j = 1 THEN 0 ELSE matches[j - 1][2]) + 1, matches[j][2])

Inexact(rr, cs, matches, j) ==
    ~exact_match(rr[matches[j][1]], cs[matches[j][2]])

RECURSIVE Concat(_)
Concat(seqs) == IF seqs = <<>> THEN <<>> ELSE Head(seqs) \o Concat(Tail(seqs))

\* The calls the claim names, by the positions of the inexact matches.
ExpectedCalls(rr, cs) ==
    LET matches == find_review_requests(rr, cs)
        Test(j) == Inexact(rr, cs, matches, j)
        js == SelectSeq([j \in 1..Len(matches) |-> j], Test)
    IN [k \in 1..Len(js) |->
          [revreq |-> matches[js[k]][1],
           changesets |-> SpanOf(cs, matches, js[k])]]

CallsAsExpected(rr, cs) ==
    LoopCalls(rr, cs, find_review_requests(rr, cs), 1, 0)
        = ExpectedCalls(rr, cs)

new_changesets_of(rr, cs) ==
    SubSeq(cs, LastMatchedIndex(rr, cs) + 1, Len(cs))

\* C30 as stated: the spans of the calls and new_changesets make up the
\* push.
C30_CallSpansCoverPush ==
    [][(outcome' # "none" /\ rc = RcComplete) =>
          LET cs == IncomingOf(pushed')
              calls == LoopCalls(revreqs, cs,
                                 find_review_requests(revreqs, cs), 1, 0)
          IN  /\ CallsAsExpected(revreqs, cs)
              /\ Concat([k \in 1..Len(calls) |-> calls[k].changesets])
                    \o new_changesets_of(revreqs, cs) = cs]_vars

\* The last matched request is written once more after the loop unless the
\* run goes on to create a request or nothing follows the last match.
KeepsLoopUpdate(rr, cs, matches, j) ==
    \/ j < Len(matches)
    \/ LastMatchedIndex(rr, cs) = Len(cs)
    \/ /\ approved_by_others(rr[matches[j][1]])
       /\ ~TrailingPasses(cs, LastMatchedIndex(rr, cs))

\* C30, as the code has it: the calls are as stated and each leaves its
\* span on its request; the spans of all matched requests, exact or not,
\* and new_changesets make up the push.
C30_MatchSpansCoverPush ==
    [][(outcome' # "none" /\ rc = RcComplete) =>
          LET cs == IncomingOf(pushed')
              matches == find_review_requests(revreqs, cs)
          IN  /\ CallsAsExpected(revreqs, cs)
              /\ Concat([j \in 1..Len(matches) |-> SpanOf(cs, matches, j)])
                    \o new_changesets_of(revreqs, cs) = cs
              /\ \A j \in 1..Len(matches) :
                    (Inexact(revreqs, cs, matches, j)
                     /\ KeepsLoopUpdate(revreqs, cs, matches, j)) =>
                       WrittenDescription(revreqs'[matches[j][1]])
                          = generate_description(SpanOf(cs, matches, j))]_vars

\* An approved request whose changeset was amended, pushed with a new
\* changeset on top: the loop has written the amended changeset alone onto
\* the request, and a second request holds the new changeset.
C30_Witness ==
    /\ outcome = "HOOK_FAILED"
    /\ pushed = 2
    /\ known = 0
    /\ changesets[1].desc = 1
    /\ Len(revreqs) = 2
    /\ revreqs[1].reviews # {}
    /\ \A review \in revreqs[1].reviews : review.timestamp = 1
    /\ revreqs[1].diffs.count = 2
    /\ WrittenDescription(revreqs[1]) = generate_description(<<Ctx(1)>>)
    /\ WrittenDescription(revreqs[2]) = generate_description(<<Ctx(2)>>)

-----------------------------------------------------------------------------
(* C31: an upload of the hook of rbtools/hooks passes the parent diff and  *)
(* the base commit id exactly when the parent diff is not empty, that is   *)
(* when the uploaded span does not start at the first incoming changeset;  *)
(* otherwise the diff alone is uploaded.                                   *)
UploadedIn(r) ==
    \/ r > Len(revreqs)
    \/ revreqs'[r].diffs # revreqs[r].diffs

C31_ParentDiffWhenNotEmpty ==
    [][outcome' # "none" =>
          LET cs == IncomingOf(pushed')
          IN \A r \in 1..Len(revreqs') :
                UploadedIn(r) =>
                   LET upload == revreqs'[r].diffs
                   IN \E k \in 1..Len(cs) :
                         /\ upload.diff = DiffOf(SubSeq(cs, k, Len(cs))).body
                         /\ k = 1 =>
                               /\ upload.keywords = {}
                               /\ upload.parent_diff = <<>>
                         /\ k > 1 =>
                               /\ upload.keywords = ParentDiffKeywords
                               /\ upload.parent_diff
                                     = DiffOf(SubSeq(cs, 1, k - 1)).body
                               /\ upload.base_commit_id = NodeOf(known)]_vars

\* test_push_review_hook_base_parent_diff: a request for the second of two
\* pushed changesets was created after the first was approved, and its
\* upload has the first as parent diff.
C31_Witness ==
    /\ outcome = "HOOK_FAILED"
    /\ pushed = 2
    /\ known = 0
    /\ Len(revreqs) = 2
    /\ revreqs[1].approved
    /\ revreqs[1].diffs.keywords = {}
    /\ revreqs[2].diffs.count = 1
    /\ revreqs[2].diffs.keywords = ParentDiffKeywords
    /\ revreqs[2].diffs.parent_diff = DiffOf(<<Ctx(1)>>).body
    /\ revreqs[2].diffs.diff = DiffOf(<<Ctx(2)>>).body

-----------------------------------------------------------------------------
(* C32: a request that a run has updated from a span of changesets and     *)
(* published has the summary of the span's oldest changeset and the commit *)
(* id of its last one, and is the request found for that last changeset;   *)
(* when the span is the one it had before and one newer changeset, the     *)
(* summary is what it was and the commit id has moved to the newer one.    *)
WrittenFrom(req, span) ==
    /\ req.description = generate_description(span)
    /\ req.summary = span[1].desc
    /\ req.commit_id = date_author_hash(Last(span))

\* The fields of a request that an update writes.
Content(req) == [req EXCEPT !.status = "pending"]

IsPrefix(s, t) == Len(s) <= Len(t) /\ SubSeq(t, 1, Len(s)) = s

C32_SummaryAndCommitIdOfSpan ==
    [][(outcome' # "none" /\ rc = RcComplete /\ Publishing) =>
          LET cs == IncomingOf(pushed')
          IN \A r \in 1..Len(revreqs') :
                (r > Len(revreqs) \/ Content(revreqs'[r]) # Content(revreqs[r]))
                => /\ \E a \in 1..Len(cs), b \in 1..Len(cs) :
                         /\ a <= b
                         /\ WrittenFrom(revreqs'[r], SubSeq(cs, a, b))
                         /\ find_review_request(
                               revreqs', date_author_hash(cs[b])) = r
                   /\ (/\ r <= Len(revreqs)
                       /\ revreqs[r].description.count > 0
                       /\ revreqs'[r].description.count
                             = revreqs[r].description.count + 1
                       /\ IsPrefix(revreqs[r].description.text,
                                   revreqs'[r].description.text))
                      => /\ revreqs'[r].summary = revreqs[r].summary
                         /\ revreqs'[r].commit_id # revreqs[r].commit_id]_vars

\* test_update_draft: a request for one changeset was extended by a second
\* one with another description; the summary is the first one's, the
\* commit id the second one's.
C32_Witness ==
    /\ outcome = "HOOK_FAILED"
    /\ Publishing
    /\ pushed = 2
    /\ known = 0
    /\ changesets[1].desc # changesets[2].desc
    /\ Len(revreqs) = 1
    /\ revreqs[1].diffs.count = 2
    /\ revreqs[1].public
    /\ revreqs[1].description = generate_description(IncomingOf(2))
    /\ revreqs[1].summary = changesets[1].desc
    /\ revreqs[1].commit_id = date_author_hash(Ctx(2))

-----------------------------------------------------------------------------
(* Long chains of ticket references after one trigger. *)

\* References in one chain.
MaxChain == 12

ChainIdTokens ==
    {[kind |-> "ticket_id", digits |-> d, hash |-> FALSE, prefix |-> ""] :
        d \in {<<1>>, <<2>>}}

InitChains ==
    /\ HookIdle
    /\ message = <<>>
    /\ ticket_ids = <<>>
    /\ linkified = <<>>
    /\ old_description = <<>>
    /\ new_description = <<>>
    /\ joined = <<>>
    /\ ticket_id_prefixes = NotConfigured
    /\ ticket_prefixes = DefaultPrefixes

\* The committer writes a trigger and a reference, then one more reference
\* joined to the chain.
WriteChain ==
    /\ Len(message) < 2 * MaxChain
    /\ \E token \in ChainIdTokens :
          message' = message
                        \o <<IF message = <<>> THEN TICKET_TRIGGER
                             ELSE TICKET_JOIN, token>>
    /\ ticket_ids' = <<>>
    /\ linkified' = <<>>
    /\ UNCHANGED <<hookvars, descriptionvars, prefixvars>>

NextChains == WriteChain \/ FindTicketRefs \/ LinkifyTicketRefs

SpecChains == InitChains /\ [][NextChains]_vars

(* C33: after one trigger at most 10 consecutive references are            *)
(* recognized: find_ticket_refs returns at most 10 ids of the chain, and   *)
(* linkify_ticket_refs turns its first 10 references at most into links;   *)
(* a further reference of the chain is neither returned nor linkified.     *)
Linked(pieces) == {k \in 1..Len(pieces) : pieces[k].label # NoLabel}

C33_ChainOfTen ==
    /\ Len(ticket_ids) <= 10
    /\ Cardinality(Linked(linkified)) <= 10
    /\ \A k \in 1..Len(linkified) : k > 2 * 10 => linkified[k].label = NoLabel

-----------------------------------------------------------------------------
(* C34: when the hook of rbtools/hooks finds a pending request for an       *)
(* incoming changeset that is not the last one, the request's description   *)
(* and diff are written from the changesets after the last approved one,    *)
(* from those only, and the push is rejected.                               *)
PendingFor(rr, ctx) ==
    /\ find_review_request(rr, ctx.node) # 0
    /\ ~approved_by_others(rr[find_review_request(rr, ctx.node)])

ApprovedFor(rr, ctx) ==
    /\ find_review_request(rr, ctx.node) # 0
    /\ approved_by_others(rr[find_review_request(rr, ctx.node)])

\* Where the first pending request is found among cs, 0 when nowhere.
PendingAt(rr, cs) ==
    LET at == {i \in 1..Len(cs) : PendingFor(rr, cs[i])}
    IN IF at = {} THEN 0 ELSE CHOOSE i \in at : \A j \in at : i <= j

\* The last changeset before the i-th with an approved request, 0 when none.
LastApprovedBefore(rr, cs, i) ==
    LET at == {j \in 1..(i - 1) : ApprovedFor(rr, cs[j])}
    IN IF at = {} THEN 0 ELSE CHOOSE j \in at : \A k \in at : k <= j

C34_RemainingAdded ==
    [][outcome' # "none" =>
          LET cs == IncomingOf(pushed')
              i == PendingAt(revreqs, cs)
          IN (i > 0 /\ i < Len(cs)) =>
                LET r == find_review_request(revreqs, cs[i].node)
                    span == SubSeq(cs, LastApprovedBefore(revreqs, cs, i) + 1,
                                   Len(cs))
                IN /\ outcome' = "HOOK_FAILED"
                   /\ revreqs'[r].description = generate_description(span)
                   /\ revreqs'[r].diffs.diff = DiffOf(span).body]_vars

\* What the code does there: every incoming changeset is written onto the
\* pending request, the approved ones too, and nothing else changes.
C34_AllIncomingAdded ==
    [][outcome' # "none" =>
          LET cs == IncomingOf(pushed')
              i == PendingAt(revreqs, cs)
          IN (i > 0 /\ i < Len(cs)) =>
                LET r == find_review_request(revreqs, cs[i].node)
                IN /\ outcome' = "HOOK_FAILED"
                   /\ known' = known
                   /\ revreqs'[r].description = generate_description(cs)
                   /\ revreqs'[r].diffs.diff = DiffOf(cs).body
                   /\ revreqs'[r].diffs.count = revreqs[r].diffs.count + 1
                   /\ Len(revreqs') = Len(revreqs)
                   /\ \A q \in 1..Len(revreqs) :
                         q # r => revreqs'[q] = revreqs[q]]_vars

-----------------------------------------------------------------------------
(* C35: when the hook of rbtools/hooks finds the pending request for the    *)
(* last incoming changeset, it returns HOOK_FAILED and the review service   *)
(* is left as it was: no diff uploaded, no draft updated, no request        *)
(* created or closed; the same push can then be tried again with the same   *)
(* result.                                                                  *)
C35_NoNewCommitsChangesNothing ==
    [][outcome' # "none" =>
          LET cs == IncomingOf(pushed')
          IN PendingAt(revreqs, cs) = Len(cs) =>
                /\ outcome' = "HOOK_FAILED"
                /\ revreqs' = revreqs
                /\ known' = known
                /\ changesets' = changesets]_vars

\* One changeset was pushed for which a pending request with one upload
\* was there already.
C35_Witness ==
    /\ outcome = "HOOK_FAILED"
    /\ pushed = 1
    /\ known = 0
    /\ Len(revreqs) = 1
    /\ revreqs[1].commit_id = NodeOf(1)
    /\ revreqs[1].diffs.count = 1
    /\ \E k \in 1..Len(log) : log[k] = "No new commits since last time."

-----------------------------------------------------------------------------
(* C36: a changeset for which no review request is found does not end the   *)
(* run: the changesets after it are looked up as well, so a pending request *)
(* of a later changeset still rejects the push without a new request, an    *)
(* approved request of a later changeset covers it, and otherwise it is     *)
(* among the changesets the new review request is written from.             *)
NotFoundAt(rr, cs) ==
    {i \in 1..Len(cs) : find_review_request(rr, cs[i].node) = 0}

MergesPass(span) ==
    /\ configbool(hgrc.allow_merge, FALSE)
    /\ \A k \in 1..Len(span) : is_merge(span[k])

C36_NotFoundIsNoMatch ==
    [][outcome' # "none" =>
          LET cs == IncomingOf(pushed')
              pending == PendingAt(revreqs, cs)
              covered == LastApprovedBefore(revreqs, cs, Len(cs) + 1)
              remaining == SubSeq(cs, covered + 1, Len(cs))
          IN \A i \in NotFoundAt(revreqs, cs) :
                /\ (pending > i) =>
                      /\ outcome' = "HOOK_FAILED"
                      /\ Len(revreqs') = Len(revreqs)
                      /\ pending < Len(cs) =>
                            revreqs'[find_review_request(
                                        revreqs, cs[pending].node)].description
                               = generate_description(cs)
                /\ (pending = 0 /\ i < covered /\ covered = Len(cs)) =>
                      /\ outcome' = "HOOK_SUCCESS"
                      /\ known' = known + Len(cs)
                      /\ Len(revreqs') = Len(revreqs)
                /\ (pending = 0 /\ i > covered /\ ~MergesPass(remaining)) =>
                      /\ outcome' = "HOOK_FAILED"
                      /\ known' = known
                      /\ Len(revreqs') = Len(revreqs) + 1
                      /\ Last(revreqs').description
                            = generate_description(remaining)]_vars

\* Two changesets were pushed and accepted; the only request, approved and
\* now closed, is the one of the second, and none is found for the first.
C36_Witness ==
    /\ outcome = "HOOK_SUCCESS"
    /\ pushed = 2
    /\ known = 2
    /\ Len(revreqs) = 1
    /\ revreqs[1].commit_id = NodeOf(2)
    /\ revreqs[1].status = "submitted"
    /\ find_review_request(revreqs, NodeOf(1)) = 0

-----------------------------------------------------------------------------
(* C37: a run of the contrib hook that accepts a push whose last changeset  *)
(* has a review request (no merges follow it) uploads no diff and creates   *)
(* no request; summary, description, commit id and diffs of every request   *)
(* are what they were, and only the status of the matched ones is set to    *)
(* submitted.                                                               *)
Recorded(req) ==
    [summary |-> req.summary, description |-> req.description,
     commit_id |-> req.commit_id, diffs |-> req.diffs]

C37_AcceptOnlyCloses ==
    [][(/\ outcome' = "HOOK_SUCCESS"
        /\ LastMatchedIndex(revreqs, IncomingOf(pushed')) = pushed') =>
          /\ Len(revreqs') = Len(revreqs)
          /\ \A r \in 1..Len(revreqs) :
                /\ Recorded(revreqs'[r]) = Recorded(revreqs[r])
                /\ revreqs'[r].status # revreqs[r].status =>
                      /\ revreqs'[r].status = "submitted"
                      /\ r \in MatchedRequests(revreqs, IncomingOf(pushed'))]_vars

\* What holds of such a run: no request is created, every matched request
\* is closed and no other is touched; a request whose recorded span or
\* content differs from what was pushed is rewritten before it is closed.
C37_AcceptCreatesNothing ==
    [][(/\ outcome' = "HOOK_SUCCESS"
        /\ LastMatchedIndex(revreqs, IncomingOf(pushed')) = pushed') =>
          /\ Len(revreqs') = Len(revreqs)
          /\ \A r \in 1..Len(revreqs) :
                IF r \in MatchedRequests(revreqs, IncomingOf(pushed'))
                THEN revreqs'[r].status = "submitted"
                ELSE revreqs'[r] = revreqs[r]]_vars

-----------------------------------------------------------------------------
(* close_review_request of rbtools/hooks/common.py on one review request. *)

\* Words of a description text.
MaxCloseText == 2

SUBMITTED == "submitted"

CloseWords == {"usertext", "closing"}

CloseTexts == UNION {[1..n -> CloseWords] : n \in 0..MaxCloseText}

\* Mutant: the description is written whatever it is and whatever the
\* status was.
close_review_request_overwrites(review_request, description) ==
    [review_request EXCEPT !.status = SUBMITTED, !.description = description]

close_review_request(review_request, description) ==
    IF review_request.status = SUBMITTED THEN review_request
    ELSE IF description # <<>>
    THEN [review_request EXCEPT !.status = SUBMITTED,
                                !.description = description]
    ELSE [review_request EXCEPT !.status = SUBMITTED]

\* What the call logs (warning) or prints.
close_review_request_log(review_request) ==
    IF review_request.status = SUBMITTED
    THEN <<"Review request #%s is already %s.">>
    ELSE <<"Review request #%s is set to %s.">>

\* The request with the given id, as its owner posted it.
InitClose ==
    /\ NoText
    /\ changesets = <<>>
    /\ known = 0
    /\ revreqs = <<[status |-> "pending", description |-> <<>>]>>
    /\ hgrc = [allow_merge |-> "", publish |-> ""]
    /\ outcome = "none"
    /\ hint = NoNode
    /\ pushed = 0
    /\ log = <<>>
    /\ api_error = NoFault
    /\ rc = RcComplete

\* The owner writes on in the description of the request.
EditRequest ==
    /\ Len(revreqs[1].description) < MaxCloseText
    /\ \E word \in CloseWords :
         revreqs' = [revreqs EXCEPT ![1].description = Append(@, word)]
    /\ log' = <<>>
    /\ UNCHANGED <<changesets, known, hgrc, outcome, hint, pushed, rc,
                   api_error, textvars>>

\* The owner reopens or discards the request on the service.
SetStatus ==
    /\ \E status \in {"pending", "discarded"} :
         /\ status # revreqs[1].status
         /\ revreqs' = [revreqs EXCEPT ![1].status = status]
    /\ log' = <<>>
    /\ UNCHANGED <<changesets, known, hgrc, outcome, hint, pushed, rc,
                   api_error, textvars>>

\* close_review_request(server_url, username, password, 1, description);
\* new_description keeps the description that was passed.
CloseReviewRequest ==
    /\ \E description \in CloseTexts :
         /\ new_description' = description
         /\ revreqs' = [revreqs EXCEPT
                          ![1] = close_review_request(@, description)]
    /\ log' = close_review_request_log(revreqs[1])
    /\ UNCHANGED <<changesets, known, hgrc, outcome, hint, pushed, rc,
                   api_error, ticketvars, prefixvars, old_description, joined>>

NextClose == EditRequest \/ SetStatus \/ CloseReviewRequest

SpecClose == InitClose /\ [][NextClose]_vars

(* C38: close_review_request on a request that is already submitted        *)
(* updates nothing; on any other request it sets the status to submitted   *)
(* and writes the description only when a non-empty one is passed; a       *)
(* second call right after the first changes nothing any more.             *)
C38_CloseReviewRequest ==
    [][log' # <<>> =>
          LET review_request == revreqs[1]
              description == new_description'
          IN /\ review_request.status = SUBMITTED =>
                   /\ revreqs' = revreqs
                   /\ log' = <<"Review request #%s is already %s.">>
             /\ review_request.status # SUBMITTED =>
                   /\ revreqs'[1].status = SUBMITTED
                   /\ revreqs'[1].description
                         = IF description # <<>> THEN description
                           ELSE review_request.description
                   /\ log' = <<"Review request #%s is set to %s.">>
             /\ log # <<>> => revreqs' = revreqs]_vars

\* The request was closed without a description and then once more with
\* one: it still has the text of its owner.
C38_Witness ==
    /\ revreqs[1].status = SUBMITTED
    /\ revreqs[1].description = <<"usertext">>
    /\ new_description = <<"closing">>
    /\ log = <<"Review request #%s is already %s.">>

-----------------------------------------------------------------------------
(* The contrib hook under any value of allow_merge and publish. *)

\* What the [reviewboardhook] section may hold for a boolean setting; the
\* empty text stands for a setting that is not there.
ConfigValues == {"", "0", "False", "false", "no", "off", "True", "1"}

InitConfig ==
    /\ NoText
    /\ changesets = <<>>
    /\ known = 0
    /\ revreqs = <<>>
    /\ hgrc \in [allow_merge : ConfigValues, publish : ConfigValues]
    /\ outcome = "none"
    /\ hint = NoNode
    /\ pushed = 0
    /\ log = <<>>
    /\ api_error = NoFault
    /\ rc = RcComplete

NextConfig == Commit \/ Review \/ Push

SpecConfig == InitConfig /\ [][NextConfig]_vars

(* C39: configbool is false only for the values '0' and 'False' and for a  *)
(* missing or empty setting whose default is False; every other value,     *)
(* 'false', 'no' and 'off' too, is true: as allow_merge it lets merges     *)
(* that follow approved changesets pass, as publish it has new requests    *)
(* published.                                                              *)
ReadAsFalse(value, default) ==
    \/ value \in {"0", "False"}
    \/ value = "" /\ ~default

C39_ConfigboolReading ==
    \A value \in ConfigValues, default \in BOOLEAN :
       configbool(value, default) = ~ReadAsFalse(value, default)

C39_OnlyZeroAndFalseDisable ==
    [][outcome' # "none" =>
          LET cs == IncomingOf(pushed')
              matched == MatchedRequests(revreqs, cs)
              new_changesets ==
                  SubSeq(cs, LastMatchedIndex(revreqs, cs) + 1, Len(cs))
          IN /\ C39_ConfigboolReading
             /\ (/\ matched # {}
                 /\ \A r \in matched : approved_by_others(revreqs[r])
                 /\ Len(new_changesets) > 0
                 /\ \A k \in 1..Len(new_changesets) :
                       is_merge(new_changesets[k]))
                => (outcome' = "HOOK_SUCCESS"
                      <=> ~ReadAsFalse(hgrc.allow_merge, FALSE))
             /\ Len(revreqs') > Len(revreqs)
                => (Last(revreqs').public
                      <=> ~ReadAsFalse(hgrc.publish, TRUE))]_vars

\* With allow_merge = false and publish = no a request was published for
\* the first changeset and, once approved, the push of it and of the merge
\* after it was accepted.
C39_Witness ==
    /\ hgrc = [allow_merge |-> "false", publish |-> "no"]
    /\ outcome = "HOOK_SUCCESS"
    /\ pushed = 2
    /\ known = 2
    /\ changesets[2].merge
    /\ Len(revreqs) = 1
    /\ revreqs[1].public
    /\ revreqs[1].status = "submitted"

====
